---- MODULE Spec2Model ----
(***************************************************************************)
(* Model of the upstream-release resolution and retrieval code of the      *)
(* envoy-ai-unified-installer repository.                                  *)
(*                                                                         *)
(* Three implementations of the same procedure live in the repository:    *)
(*   "go"        pkg/upstream (src/unnamed/part_005)                       *)
(*   "part_000"  the merge-charts shell script, error() exits              *)
(*   "part_001"  the merge-charts shell script, error() only logs          *)
(* Shell text is modelled by TLA+ strings; a captured standard output is   *)
(* the concatenation of every line the function wrote to it, log lines     *)
(* (which log() sends through tee to standard output) included.            *)
(***************************************************************************)
EXTENDS Integers, Sequences, FiniteSets, TLC

-----------------------------------------------------------------------------
(* Bounds of the model *)

MaxAssets == 2

MaxPrefix == 2

\* longest list of values files handed to HelmCommand.Install on its own
MaxValues == 2

-----------------------------------------------------------------------------
(* Strings *)

UpperAlphabet == "ABCDEFGHIJKLMNOPQRSTUVWXYZ"

LowerAlphabet == "abcdefghijklmnopqrstuvwxyz"

CharAt(s, i) == SubSeq(s, i, i)

LowerChar(c) ==
    IF \E i \in 1..Len(UpperAlphabet) : CharAt(UpperAlphabet, i) = c
    THEN CharAt(LowerAlphabet,
                CHOOSE i \in 1..Len(UpperAlphabet) : CharAt(UpperAlphabet, i) = c)
    ELSE c

RECURSIVE ToLower(_)
ToLower(s) ==
    IF s = "" THEN ""
    ELSE LowerChar(CharAt(s, 1)) \o ToLower(SubSeq(s, 2, Len(s)))

Contains(s, sub) ==
    \E i \in 1..(Len(s) - Len(sub) + 1) : SubSeq(s, i, i + Len(sub) - 1) = sub

HasSuffix(s, suf) ==
    /\ Len(s) >= Len(suf)
    /\ SubSeq(s, Len(s) - Len(suf) + 1, Len(s)) = suf

\* sed 's/.*\///' : drop everything up to and including the last slash
RECURSIVE StripToLastSlash(_)
StripToLastSlash(s) ==
    IF ~Contains(s, "/") THEN s
    ELSE LET i == CHOOSE k \in 1..Len(s) : CharAt(s, k) = "/"
                                           /\ ~Contains(SubSeq(s, 1, k - 1), "/")
         IN  StripToLastSlash(SubSeq(s, i + 1, Len(s)))

-----------------------------------------------------------------------------
(* Log lines: log() prints "[timestamp] [LEVEL] message" through tee, that  *)
(* is to the log file and to standard output.  TS stands for the timestamp. *)

LogLine(level, message) == "[TS] [" \o level \o "] " \o message \o "\n"

\* $(...) strips the trailing newlines of the captured output
RECURSIVE StripTrailingNewlines(_)
StripTrailingNewlines(s) ==
    IF HasSuffix(s, "\n") THEN StripTrailingNewlines(SubSeq(s, 1, Len(s) - 1))
    ELSE s

\* head -n1 of a text whose lines end in \n
FirstLine(s) ==
    IF ~Contains(s, "\n") THEN s
    ELSE LET i == CHOOSE k \in 1..Len(s) : CharAt(s, k) = "\n"
                                           /\ ~Contains(SubSeq(s, 1, k - 1), "\n")
         IN  SubSeq(s, 1, i - 1)

-----------------------------------------------------------------------------
(* Release payloads.  A JSON value that may be null is a record             *)
(* [isnull, s]; a release document has a tag_name, a list of assets and,    *)
(* possibly, a repository.full_name.                                        *)

JNull == [isnull |-> TRUE, s |-> ""]

JStr(s) == [isnull |-> FALSE, s |-> s]

\* jq -r '.field'
JqRaw(v) == IF v.isnull THEN "null" ELSE v.s

\* jq -r '.field // empty'
JqRawOrEmpty(v) == IF v.isnull THEN "" ELSE v.s

JsonValue(v) == IF v.isnull THEN "null" ELSE "\"" \o v.s \o "\""

RECURSIVE JsonAssets(_)
JsonAssets(as) ==
    IF as = <<>> THEN ""
    ELSE "{\"name\":\"" \o Head(as).name \o "\",\"browser_download_url\":\""
         \o Head(as).url \o "\"}"
         \o (IF Len(as) > 1 THEN "," ELSE "") \o JsonAssets(Tail(as))

\* a payload that is not a JSON document is kept as its text: [raw]
MalformedBody == [raw |-> "<html>502 Bad Gateway</html>"]

IsDocument(rel) == "tag_name" \in DOMAIN rel

\* the text of a payload, as the host sends it
JsonText(rel) ==
    IF ~IsDocument(rel) THEN rel.raw
    ELSE "{\"tag_name\":" \o JsonValue(rel.tag_name)
         \o ",\"assets\":[" \o JsonAssets(rel.assets) \o "]"
         \o (IF rel.full_name.isnull THEN ""
             ELSE ",\"repository\":{\"full_name\":" \o JsonValue(rel.full_name) \o "}")
         \o "}"

\* A shell variable holding a release payload: the text in front of the
\* payload (log lines that were captured with it) and the payload.
\* jq parses the whole text, so any text in front makes it fail.
ShellJson(pre, rel) == [pre |-> pre, rel |-> rel]

JqParses(t) == t.pre = "" /\ IsDocument(t.rel)

ShellText(t) == t.pre \o JsonText(t.rel)

-----------------------------------------------------------------------------
(* Asset Resolver, pkg/upstream (Go) *)

keywords == <<"helm", "chart", ".tgz", "tar.gz">>

MatchesKeyword(name) ==
    \E k \in 1..Len(keywords) : Contains(ToLower(name), keywords[k])

RECURSIVE findChartAsset(_)
findChartAsset(assets) ==
    IF assets = <<>> THEN ""
    ELSE IF MatchesKeyword(Head(assets).name) THEN Head(assets).url
    ELSE findChartAsset(Tail(assets))

\* (*github.RepositoryRelease).GetTagName: "" for a missing tag
GetTagName(rel) == IF rel.tag_name.isnull THEN "" ELSE rel.tag_name.s

NoResult == [status |-> "none", tag |-> "", url |-> "", filename |-> ""]

Failed == [status |-> "fail", tag |-> "", url |-> "", filename |-> ""]

\* FetchLatestRelease after the host answered: err is the error of
\* GetLatestRelease, rel the release it returned
FetchLatestRelease(owner, repo, err, rel) ==
    IF err THEN Failed
    ELSE LET url == findChartAsset(rel.assets)
         IN  IF url = "" THEN Failed
             ELSE [status |-> "ok", tag |-> GetTagName(rel), url |-> url,
                   filename |-> ""]

-----------------------------------------------------------------------------
(* Asset Resolver, shell script part_000 *)

\* the alternatives of the jq regex "helm|chart|tgz|tar\\.gz", flag "i"
asset_regex == <<"helm", "chart", "tgz", "tar.gz">>

JqTestName(name) ==
    \E k \in 1..Len(asset_regex) : Contains(ToLower(name), asset_regex[k])

\* jq -r prints one line for each selected asset
RECURSIVE UrlLines(_)
UrlLines(assets) ==
    IF assets = <<>> THEN ""
    ELSE Head(assets).url \o "\n" \o UrlLines(Tail(assets))

\* find_helm_chart_asset "$release_json" "$owner" "$repo": what it writes
\* to standard output and its exit status.  p1, p2, p3 are the positional
\* parameters $1, $2, $3; the fallback URL is built from $1 and $2.
find_helm_chart_asset(p1, p2, p3) ==
    LET lines == IF JqParses(p1)
                 THEN UrlLines(SelectSeq(p1.rel.assets,
                                         LAMBDA a : JqTestName(a.name)))
                 ELSE ""
        url   == FirstLine(lines)
        warned == LogLine("WARN",
                    "No chart asset found, attempting fallback to repository archive")
        tag   == IF JqParses(p1) THEN JqRaw(p1.rel.tag_name) ELSE ""
    IN  IF url = "" \/ url = "null"
        THEN IF tag = "" \/ tag = "null"
             THEN [out |-> warned \o LogLine("ERROR", "No tag found in release"),
                   status |-> 1]
             ELSE [out |-> warned \o "https://github.com/" \o ShellText(p1) \o "/"
                           \o p2 \o "/archive/refs/tags/" \o tag \o ".tar.gz" \o "\n",
                   status |-> 0]
        ELSE [out |-> url \o "\n", status |-> 0]

\* process_upstream, from the tag extraction to the file name: "local
\* url=$(...)" keeps the captured output whatever the exit status
process_upstream_resolve(owner, repo, release_json) ==
    LET tag == IF JqParses(release_json) THEN JqRaw(release_json.rel.tag_name)
               ELSE ""
        url == StripTrailingNewlines(
                   find_helm_chart_asset(release_json, owner, repo).out)
    IN  IF url = "" \/ url = "null" THEN Failed
        ELSE [status |-> "ok", tag |-> tag, url |-> url,
              filename |-> owner \o "-" \o repo \o "-" \o tag \o ".tgz"]

-----------------------------------------------------------------------------
(* Asset Resolver, shell script part_001 *)

get_download_url(api_json, repo_key) ==
    LET tag_name == IF JqParses(api_json)
                    THEN JqRawOrEmpty(api_json.rel.tag_name) ELSE ""
        extracted == LogLine("INFO", "Extracted tag_name for " \o repo_key
                                     \o ": " \o tag_name)
        lines == IF JqParses(api_json)
                 THEN UrlLines(SelectSeq(api_json.rel.assets,
                                         LAMBDA a : HasSuffix(a.url, ".tgz")))
                 ELSE ""
        tgz_url == FirstLine(lines)
        owner_repo == IF JqParses(api_json)
                      THEN JqRawOrEmpty(api_json.rel.full_name) ELSE ""
    IN  IF tag_name = "" \/ tag_name = "null"
        THEN [out |-> LogLine("ERROR", "No tag_name in API response for "
                                       \o repo_key \o " - skipping"),
              status |-> 1]
        ELSE IF tgz_url # "" /\ tgz_url # "null"
        THEN [out |-> extracted \o tgz_url, status |-> 0]
        ELSE IF owner_repo = "" \/ owner_repo = "null"
        THEN [out |-> extracted \o LogLine("ERROR",
                        "Cannot determine repository name from API response for "
                        \o repo_key \o " - skipping"),
              status |-> 1]
        ELSE [out |-> extracted \o "https://github.com/" \o owner_repo
                      \o "/archive/refs/tags/" \o tag_name \o ".tar.gz",
              status |-> 0]

\* process_repo, from the tag extraction to the file name
process_repo_resolve(owner_repo, api_json) ==
    LET tag_name == IF JqParses(api_json)
                    THEN JqRawOrEmpty(api_json.rel.tag_name) ELSE ""
        got == get_download_url(api_json, owner_repo)
        download_url == StripTrailingNewlines(got.out)
        repo_name == StripToLastSlash(owner_repo)
    IN  IF tag_name = "" \/ tag_name = "null" THEN Failed
        ELSE IF got.status # 0 THEN Failed
        ELSE IF download_url = "" THEN Failed
        ELSE [status |-> "ok", tag |-> tag_name, url |-> download_url,
              filename |-> IF HasSuffix(download_url, ".tar.gz")
                           THEN repo_name \o "-" \o tag_name \o ".tar.gz"
                           ELSE repo_name \o "-" \o tag_name \o ".tgz"]

-----------------------------------------------------------------------------
(* Fetcher: curl and the two download_file loops *)

\* part_000: local max_retries=3
max_retries == 3

\* part_001: readonly MAX_RETRIES=3
MAX_RETRIES == 3

\* part_001: curl --retry 3; part_000 runs curl without --retry
curl_retry_option == 3

CurlRetries(i) == IF i = "part_001" THEN curl_retry_option ELSE 0

\* a loop bound that is one attempt short
AttemptsOneShort(i) ==
    IF i = "part_001" THEN MAX_RETRIES - 1 ELSE max_retries - 1

\* the number of attempts of download_file
Attempts(i) == IF i = "part_001" THEN MAX_RETRIES ELSE max_retries

\* What the endpoint can answer to one request
\*   ok          2xx, a non-empty body, received whole
\*   empty       2xx, a zero-byte body
\*   http_error  a non-2xx status (curl -f: exit 22, nothing written)
\*   conn_error  no connection (nothing written)
\*   partial     the connection breaks after part of the body was written
Outcomes == {"ok", "empty", "http_error", "conn_error", "partial"}

\* the answer of an endpoint to its n-th request
Response(e, n) == IF n <= Len(e.prefix) THEN e.prefix[n] ELSE e.steady

CurlSucceeds(o) == o \in {"ok", "empty"}

AbsentFile == [kind |-> "absent", from |-> 0]

\* the destination after curl -o handled the n-th request: a body is
\* written over the file, a successful empty transfer creates an empty
\* file, a failure before the first byte leaves the path as it was
FileAfter(f, o, n) ==
    CASE o = "ok"      -> [kind |-> "full", from |-> n]
      [] o = "empty"   -> [kind |-> "empty", from |-> n]
      [] o = "partial" -> [kind |-> "partial", from |-> n]
      [] OTHER         -> f

\* curl can only send a request for a text that is a URL
UrlUsable(u) ==
    /\ SubSeq(u, 1, Len("https://")) = "https://"
    /\ ~Contains(u, "\n") /\ ~Contains(u, " ")
    /\ ~Contains(u, "{") /\ ~Contains(u, "[")

\* part_000 validate_download: "" when the file passes, else the error
validate_download(f) ==
    IF f.kind = "absent" THEN "not_created"
    ELSE IF f.kind = "empty" THEN "empty"
    ELSE ""

\* part_000 validate_download: the MIME types that pass without a warning
ExpectedType(m) ==
    m = "application/gzip" \/ m = "application/x-tar" \/ Contains(m, "compressed")

\* what download_file logs about the content type of the file it accepted:
\* part_000 warns from validate_download, part_001 never looks at the type
TypeWarning(i, m, u) ==
    IF i = "part_000" /\ ~ExpectedType(m)
    THEN LogLine("WARN", "Unexpected MIME type: " \o m \o " for " \o u)
    ELSE ""

\* part_001: [[ -f "$output_file" ]] && [[ -s "$output_file" ]]
NonEmptyFile(f) == f.kind \in {"full", "partial"}

-----------------------------------------------------------------------------
(* State *)

VARIABLES
    impl,          \* "go", "part_000" or "part_001"
    entry,         \* the function the run was started at
    pc,            \* position of the run
    upstream,      \* the configured upstream being processed: [owner, repo]
    lookup_err,    \* go: GetLatestRelease returned an error
    release_json,  \* the release document held by the run (ShellJson)
    resolved,      \* the resolved artifact: [status, tag, url, filename]
    endpoint,      \* the download endpoint: [prefix, steady]
    attempt,       \* download_file: number of the running attempt
    curl_retry,    \* retries made by the running curl process
    requests,      \* requests sent to the download endpoint
    sleeps,        \* "sleep 2" executed by download_file
    curl_waits,    \* waits of curl between a failed request and its retry
    file,          \* the file at the destination path
    dl_status,     \* download_file: "idle", "running", "ok", "fail"
    dl_reason,     \* the error download_file ended with
    idx,           \* main: index of the upstream of the running iteration
    processed_count,
    failed_count,
    skipped_count,
    exit_status,   \* exit status of the process, -1 while it runs
    summary,       \* the summary line: [printed, processed, failed]
    attempted,     \* indexes of the upstreams whose processing started
    outcomes,      \* what the processing of each of them returned
    github_token,  \* GITHUB_TOKEN is set
    lookup_attempt,\* fetch_latest_release: number of the running attempt
    api_requests,  \* release queries sent for the running upstream
    lookup_sleeps, \* waits of fetch_latest_release between two queries
    charts,        \* go: the ChartRelease list of GetUpstreamCharts
    errors,        \* go: the errors collected by GetUpstreamCharts
    tools,         \* the executables found on the machine of a script
    lookup_codes,  \* the HTTP status of each release query of the upstream
    values_doc,    \* helm-wrapper/values.yaml: [exists, generated_at, other]
    temp,          \* the temporary files and directories that exist
    signalled,     \* an INT or TERM signal was delivered to the script
    mime,          \* what "file --mime-type -b" says of a downloaded body
    dl_warning,    \* the warning download_file logged about the file, or ""
    cfg,           \* config.Load(): [NamespaceGateway, NamespaceAI, SkipClean,
                   \* ValuesExtra]
    env,           \* the machine of the installer: [helm, kubectl, reachable]
    isDryRun,      \* --dry-run
    withRedis,     \* --with-redis
    valuesExtra,   \* --values-extra
    step,          \* runInstall: index of the running step in InstallSteps
    call,          \* index of the next call of the running step
    valuesFile,    \* the temporary file of fetchRemoteValuesFile, or ""
    helm_calls,    \* the HelmCommand calls made: [step, args, started, outcome]
    stdout,        \* lines printed by the installer
    result,        \* the error the command returned, "nil", or "running"
    probe,         \* runDoctor: index of the next probe in DoctorProbes
    probe_log,     \* the probes run: [probe, outcome, returned]
    allHealthy,    \* runDoctor: allHealthy
    cliVersion,    \* package cmd: cliVersion
    gitCommit,     \* package cmd: gitCommit
    buildTime,     \* package cmd: buildTime
    build,         \* main: [version, gitCommit, buildTime]
    report,        \* the lines runVersion printed, by label
    install_in,    \* HelmCommand.Install: [releaseName, chart, namespace, opts]
    install_args   \* HelmCommand.Install: the args handed to Execute

commonVars == <<impl, entry, pc>>

resolveVars == <<upstream, lookup_err, release_json, resolved>>

fetchVars == <<endpoint, attempt, curl_retry, requests, sleeps, curl_waits,
               file, dl_status, dl_reason>>

syncVars == <<idx, processed_count, failed_count, skipped_count, exit_status,
              summary, attempted, outcomes, github_token, lookup_attempt,
              api_requests, lookup_sleeps, charts, errors>>

scriptVars == <<tools, lookup_codes, values_doc, temp, signalled, mime,
                dl_warning>>

installVars == <<cfg, env, isDryRun, withRedis, valuesExtra, step, call,
                 valuesFile, helm_calls, stdout, result>>

doctorVars == <<probe, probe_log, allHealthy>>

versionVars == <<cliVersion, gitCommit, buildTime, build, report>>

helmVars == <<install_in, install_args>>

cliVars == <<installVars, doctorVars, versionVars, helmVars>>

vars == <<commonVars, resolveVars, fetchVars, syncVars, scriptVars, cliVars>>

-----------------------------------------------------------------------------
(* Inputs *)

Tags == {JNull, JStr(""), JStr("v2.3.1"), JStr("null")}

FullNames == {JNull, JStr("evil/fork"), JStr("acme/widget")}

AssetPool ==
    { [name |-> "widget-v2.3.1.tgz", url |-> "https://x/widget.tgz"],
      [name |-> "Widget-Chart.zip",  url |-> "https://x/widget-chart.zip"],
      [name |-> "notes.txt",         url |-> "https://x/notes.txt"],
      [name |-> "footgz.bin",        url |-> "https://x/footgz.bin"],
      [name |-> "checksums.txt",     url |-> "https://x/sums.tgz"],
      [name |-> "src.tar.gz",        url |-> "https://x/src.tar.gz"] }

AssetLists == UNION { [1..n -> AssetPool] : n \in 0..MaxAssets }

Releases == [tag_name : Tags, assets : AssetLists, full_name : FullNames]

ConfiguredRefs == { [owner |-> "acme", repo |-> "widget"],
                    [owner |-> "envoyproxy", repo |-> "gateway"] }

Endpoints == [prefix : UNION { [1..n -> Outcomes] : n \in 0..MaxPrefix },
              steady : Outcomes]

NoEndpoint == [prefix |-> <<>>, steady |-> "conn_error"]

ResolveIdle ==
    /\ upstream = [owner |-> "acme", repo |-> "widget"]
    /\ lookup_err = FALSE
    /\ release_json = ShellJson("", [tag_name |-> JNull, assets |-> <<>>,
                                     full_name |-> JNull])
    /\ resolved = NoResult

FetchIdle ==
    /\ endpoint = NoEndpoint
    /\ attempt = 0 /\ curl_retry = 0
    /\ requests = 0 /\ sleeps = 0 /\ curl_waits = 0
    /\ file = AbsentFile
    /\ dl_status = "idle" /\ dl_reason = ""

NoSummary == [printed |-> FALSE, processed |-> 0, failed |-> 0]

SyncIdle ==
    /\ idx = 0
    /\ processed_count = 0 /\ failed_count = 0 /\ skipped_count = 0
    /\ exit_status = -1
    /\ summary = NoSummary
    /\ attempted = <<>> /\ outcomes = <<>>
    /\ github_token = TRUE
    /\ lookup_attempt = 0 /\ api_requests = 0 /\ lookup_sleeps = 0
    /\ charts = <<>> /\ errors = 0

\* validate_tools: required_tools, without python3
required_tools_without_python3 == <<"curl", "jq", "tar", "gzip">>

\* validate_tools: required_tools (the same list in both scripts)
required_tools == <<"curl", "jq", "tar", "gzip", "python3">>

AllTools == {"curl", "jq", "tar", "gzip", "python3"}

\* the machines of a script: every tool present, or one of them missing
ToolSets == {AllTools} \cup { AllTools \ {t} : t \in AllTools }

\* the directory "mktemp -d" made for TEMP_DIR
TEMP_DIR == "/tmp/tmp.merge"

\* helm-wrapper/values.yaml before the run: the file may be missing;
\* generated_at holds the timestamp of an earlier run, other stands for
\* every other key of the document
ValuesDocs == [exists : BOOLEAN, generated_at : {"2024-01-10T15:30:00Z"},
               other : {"upstreams: 3"}]

\* update_values_file: datetime.utcnow().isoformat() + 'Z';
\* update_values_yaml: date -u '+%Y-%m-%dT%H:%M:%SZ'.  The clock of the run.
utc_timestamp == "2024-06-01T12:00:00Z"

\* the answers of "file --mime-type -b" for a downloaded body
MimeTypes == {"application/gzip", "application/x-tar",
              "application/x-compressed-tar", "text/html"}

ScriptIdle ==
    /\ tools = AllTools
    /\ lookup_codes = <<>>
    /\ values_doc = [exists |-> TRUE, generated_at |-> "2024-01-10T15:30:00Z",
                     other |-> "upstreams: 3"]
    /\ temp = {}
    /\ signalled = FALSE
    /\ mime = "application/gzip"
    /\ dl_warning = ""

\* package cmd before main ran: the defaults of the three variables
VersionIdle ==
    /\ cliVersion = "dev" /\ gitCommit = "unknown" /\ buildTime = "unknown"
    /\ build = [version |-> "0.1.0", gitCommit |-> "dev",
                buildTime |-> "unknown"]
    /\ report = <<>>

HelmIdle ==
    /\ install_in = [releaseName |-> "", chart |-> "", namespace |-> "",
                     opts |-> [Version |-> "", Values |-> <<>>,
                               DryRun |-> FALSE]]
    /\ install_args = <<>>

CliIdle ==
    /\ cfg = [NamespaceGateway |-> "envoy-gateway-system",
              NamespaceAI |-> "envoy-ai-gateway-system", SkipClean |-> FALSE,
              ValuesExtra |-> <<>>]
    /\ env = [helm |-> TRUE, kubectl |-> TRUE, reachable |-> TRUE]
    /\ isDryRun = FALSE /\ withRedis = FALSE /\ valuesExtra = ""
    /\ step = 0 /\ call = 0
    /\ valuesFile = ""
    /\ helm_calls = <<>>
    /\ stdout = <<>>
    /\ result = "running"
    /\ probe = 0 /\ probe_log = <<>> /\ allHealthy = TRUE
    /\ VersionIdle
    /\ HelmIdle

-----------------------------------------------------------------------------
(* The Asset Resolver run on its own: a release document as the host sent   *)
(* it, resolved for a configured upstream.                                  *)

InitResolve ==
    /\ impl \in {"go", "part_000", "part_001"}
    /\ entry = "resolve"
    /\ pc = "resolve"
    /\ upstream \in ConfiguredRefs
    /\ lookup_err \in (IF impl = "go" THEN BOOLEAN ELSE {FALSE})
    /\ release_json \in { ShellJson("", r) : r \in Releases }
    /\ resolved = NoResult
    /\ FetchIdle
    /\ SyncIdle
    /\ ScriptIdle
    /\ CliIdle

\* where a run goes after the resolution
AfterResolve(r) ==
    IF entry = "resolve" THEN "resolved"
    ELSE IF impl = "go" THEN "go_collect"
    ELSE IF r.status = "ok" THEN "dl_start"
    ELSE "count"

ResolveGo ==
    /\ impl = "go" /\ pc = "resolve"
    /\ resolved' = FetchLatestRelease(upstream.owner, upstream.repo,
                                      lookup_err, release_json.rel)
    /\ pc' = AfterResolve(resolved')
    /\ UNCHANGED <<scriptVars, cliVars>>
    /\ UNCHANGED <<impl, entry, upstream, lookup_err, release_json, fetchVars,
                   syncVars>>

ResolvePart000 ==
    /\ impl = "part_000" /\ pc = "resolve"
    /\ resolved' = process_upstream_resolve(upstream.owner, upstream.repo,
                                            release_json)
    /\ pc' = AfterResolve(resolved')
    /\ UNCHANGED <<scriptVars, cliVars>>
    /\ UNCHANGED <<impl, entry, upstream, lookup_err, release_json, fetchVars,
                   syncVars>>

ResolvePart001 ==
    /\ impl = "part_001" /\ pc = "resolve"
    /\ resolved' = process_repo_resolve(upstream.owner \o "/" \o upstream.repo,
                                        release_json)
    /\ pc' = AfterResolve(resolved')
    /\ UNCHANGED <<scriptVars, cliVars>>
    /\ UNCHANGED <<impl, entry, upstream, lookup_err, release_json, fetchVars,
                   syncVars>>

NextResolve == ResolveGo \/ ResolvePart000 \/ ResolvePart001

SpecResolve == InitResolve /\ [][NextResolve]_vars

-----------------------------------------------------------------------------
(* download_file run on its own, against an endpoint whose answers are     *)
(* fixed when the run starts.                                               *)

InitFetch ==
    /\ impl \in {"part_000", "part_001"}
    /\ entry = "download_file"
    /\ pc = "dl_start"
    /\ upstream = [owner |-> "acme", repo |-> "widget"]
    /\ lookup_err = FALSE
    /\ release_json = ShellJson("", [tag_name |-> JStr("v2.3.1"),
                                     assets |-> <<>>, full_name |-> JNull])
    /\ resolved = [status |-> "ok", tag |-> "v2.3.1",
                   url |-> "https://x/widget.tgz",
                   filename |-> "widget-v2.3.1.tgz"]
    /\ endpoint \in Endpoints
    /\ attempt = 0 /\ curl_retry = 0
    /\ requests = 0 /\ sleeps = 0 /\ curl_waits = 0
    /\ file = AbsentFile
    /\ dl_status = "idle" /\ dl_reason = ""
    /\ SyncIdle
    /\ tools = AllTools
    /\ lookup_codes = <<>>
    /\ values_doc \in {d \in ValuesDocs : d.exists}
    /\ temp = {TEMP_DIR}
    /\ signalled = FALSE
    /\ mime \in MimeTypes
    /\ dl_warning = ""
    /\ CliIdle

\* download_file is entered: the first attempt starts
DownloadStart ==
    /\ pc = "dl_start"
    /\ attempt' = 1 /\ curl_retry' = 0
    /\ requests' = 0 /\ sleeps' = 0 /\ curl_waits' = 0
    /\ dl_status' = "running" /\ dl_reason' = ""
    /\ dl_warning' = ""
    /\ pc' = "dl_curl"
    /\ UNCHANGED <<tools, lookup_codes, values_doc, temp, signalled, mime,
                   cliVars>>
    /\ UNCHANGED <<impl, entry, resolveVars, endpoint, file, syncVars>>

\* the end of a failed attempt: sleep before the next one, or give up
AttemptFailed ==
    IF attempt < Attempts(impl)
    THEN /\ pc' = "dl_sleep"
         /\ UNCHANGED <<dl_status, dl_reason>>
    ELSE /\ pc' = "dl_done"
         /\ dl_status' = "fail"
         /\ dl_reason' = "attempts"

\* one request of the running curl process, and what download_file does
\* when curl returns
CurlRequest ==
    /\ pc = "dl_curl"
    /\ LET sent == UrlUsable(resolved.url)
           n    == requests + 1
           o    == IF sent THEN Response(endpoint, n) ELSE "conn_error"
           f    == FileAfter(file, o, n)
       IN  /\ requests' = IF sent THEN n ELSE requests
           /\ file' = f
           /\ IF CurlSucceeds(o)
              THEN IF impl = "part_000"
                   THEN /\ pc' = "dl_done"
                        /\ dl_status' = IF validate_download(f) = "" THEN "ok"
                                        ELSE "fail"
                        /\ dl_reason' = validate_download(f)
                   ELSE IF NonEmptyFile(f)
                        THEN /\ pc' = "dl_done"
                             /\ dl_status' = "ok"
                             /\ dl_reason' = ""
                        ELSE AttemptFailed
              ELSE IF sent /\ curl_retry < CurlRetries(impl)
                   THEN /\ pc' = "dl_curl_wait"
                        /\ UNCHANGED <<dl_status, dl_reason>>
                   ELSE AttemptFailed
           /\ dl_warning' = IF CurlSucceeds(o) /\ NonEmptyFile(f)
                            THEN TypeWarning(impl, mime, resolved.url)
                            ELSE dl_warning
    /\ UNCHANGED <<tools, lookup_codes, values_doc, temp, signalled, mime,
                   cliVars>>
    /\ UNCHANGED <<impl, entry, resolveVars, endpoint, attempt, curl_retry,
                   sleeps, curl_waits, syncVars>>

\* curl --retry: wait, truncate what the failed transfer wrote, try again
CurlRetryWait ==
    /\ pc = "dl_curl_wait"
    /\ curl_waits' = curl_waits + 1
    /\ curl_retry' = curl_retry + 1
    /\ file' = IF file.kind = "partial" /\ file.from = requests
               THEN [kind |-> "empty", from |-> requests] ELSE file
    /\ pc' = "dl_curl"
    /\ UNCHANGED <<scriptVars, cliVars>>
    /\ UNCHANGED <<impl, entry, resolveVars, endpoint, attempt, requests,
                   sleeps, dl_status, dl_reason, syncVars>>

\* sleep 2 between two attempts of download_file
DownloadSleep ==
    /\ pc = "dl_sleep"
    /\ sleeps' = sleeps + 1
    /\ attempt' = attempt + 1
    /\ curl_retry' = 0
    /\ pc' = "dl_curl"
    /\ UNCHANGED <<scriptVars, cliVars>>
    /\ UNCHANGED <<impl, entry, resolveVars, endpoint, requests, curl_waits,
                   file, dl_status, dl_reason, syncVars>>

NextFetch == DownloadStart \/ CurlRequest \/ CurlRetryWait \/ DownloadSleep

SpecFetch == InitFetch /\ [][NextFetch]_vars

-----------------------------------------------------------------------------
(* The sync run: main of the two scripts, GetUpstreamCharts of the Go      *)
(* package.  Both scripts run under "set -euo pipefail".                    *)

\* part_001: declare -a REPOS
REPOS == << [owner |-> "envoyproxy", repo |-> "gateway"],
            [owner |-> "envoyproxy", repo |-> "ai-gateway-helm"],
            [owner |-> "envoyproxy", repo |-> "ai-gateway-crds-helm"] >>

\* part_000 main: local upstreams; GetUpstreamCharts: upstreams
upstreams == << [owner |-> "envoyproxy", repo |-> "gateway"],
                [owner |-> "envoyproxy", repo |-> "ai-gateway-helm"],
                [owner |-> "envoyproxy", repo |-> "ai-gateway-crds-helm"],
                [owner |-> "envoyproxy", repo |-> "ai-gateway"] >>

UpstreamList(i) == IF i = "part_001" THEN REPOS ELSE upstreams

EmptyRelease == [tag_name |-> JNull, assets |-> <<>>, full_name |-> JNull]

SyncReleases ==
    { [tag_name |-> JStr("v2.3.1"),
       assets |-> << [name |-> "widget-v2.3.1.tgz", url |-> "https://x/widget.tgz"] >>,
       full_name |-> JNull],
      [tag_name |-> JStr("v2.3.1"), assets |-> <<>>, full_name |-> JNull],
      [tag_name |-> JNull,
       assets |-> << [name |-> "widget-v2.3.1.tgz", url |-> "https://x/widget.tgz"] >>,
       full_name |-> JNull] }

\* what the host can send with a 200: a release document, or a text that
\* is no JSON
Payloads == SyncReleases \cup {MalformedBody, EmptyRelease}

HttpCodes == {"200", "403", "404", "500", "000"}

\* api_url of fetch_latest_release
ApiUrl(u) ==
    "https://api.github.com/repos/" \o u.owner \o "/" \o u.repo \o "/releases/latest"

\* $attempt, as text
AttemptText == <<"1", "2", "3">>

\* the first line fetch_latest_release writes to its standard output
FetchInfoLine(i, u) ==
    IF i = "part_000"
    THEN LogLine("INFO", "Fetching latest release from " \o u.owner \o "/" \o u.repo)
    ELSE LogLine("INFO", "Fetching latest release from: " \o ApiUrl(u))

\* exit status of the arithmetic command ((x++)): 1 when the value of the
\* expression, the old x, is 0
PostIncrementStatus(x) == IF x = 0 THEN 1 ELSE 0

InitSync ==
    /\ impl \in {"go", "part_000", "part_001"}
    /\ entry = "main"
    /\ pc = (IF impl = "go" THEN "go_loop" ELSE "validate_tools")
    /\ tools \in (IF impl = "go" THEN {AllTools} ELSE ToolSets)
    /\ lookup_codes = <<>>
    /\ values_doc \in ValuesDocs
    /\ impl = "go" => values_doc.exists
    /\ temp = (IF impl = "go" THEN {} ELSE {TEMP_DIR})
    /\ signalled = FALSE
    /\ mime = "application/gzip"
    /\ dl_warning = ""
    /\ CliIdle
    /\ ResolveIdle
    /\ FetchIdle
    /\ idx = 1
    /\ processed_count = 0 /\ failed_count = 0 /\ skipped_count = 0
    /\ exit_status = -1
    /\ summary = NoSummary
    /\ attempted = <<>> /\ outcomes = <<>>
    /\ github_token \in (IF impl = "part_001" THEN BOOLEAN ELSE {TRUE})
    /\ lookup_attempt = 0 /\ api_requests = 0 /\ lookup_sleeps = 0
    /\ charts = <<>> /\ errors = 0

\* main up to the loop: validate_tools looks for each required tool with
\* "command -v".  part_000 exits from error(); in part_001 validate_tools
\* returns 1, main returns 1 and the script ends with that status.
ValidateTools ==
    /\ impl \in {"part_000", "part_001"} /\ pc = "validate_tools"
    /\ IF \A k \in 1..Len(required_tools) : required_tools[k] \in tools
       THEN /\ pc' = "loop"
            /\ UNCHANGED exit_status
       ELSE /\ exit_status' = 1
            /\ pc' = "exited"
    /\ temp' = IF pc' = "exited" THEN temp \ {TEMP_DIR} ELSE temp
    /\ UNCHANGED <<impl, entry, resolveVars, fetchVars, idx, processed_count,
                   failed_count, skipped_count, summary, attempted, outcomes,
                   github_token, lookup_attempt, api_requests, lookup_sleeps,
                   charts, errors, tools, lookup_codes, values_doc, signalled,
                   mime, dl_warning, cliVars>>

\* the values document after update_values_file (part_000) and after
\* update_values_yaml (part_001).  part_000 hands the path to python3 and
\* the program sets generated_at, dumping the other keys as loaded.  In
\* part_001 the here-document ends the python3 command, which gets no
\* argument: sys.argv[1] raises, the program exits 1 with the file
\* untouched, and the next line runs the values file as a command.
update_values(i, doc) ==
    IF i = "part_000" /\ doc.exists
    THEN [doc EXCEPT !.generated_at = utc_timestamp]
    ELSE doc

\* the head of the for loop of main, and what follows the loop: the update
\* of the values document, the summary and the exit status
MainLoop ==
    /\ impl \in {"part_000", "part_001"} /\ pc = "loop"
    /\ IF idx <= Len(UpstreamList(impl))
       THEN /\ upstream' = UpstreamList(impl)[idx]
            /\ attempted' = Append(attempted, idx)
            /\ release_json' = ShellJson(FetchInfoLine(impl, upstream'),
                                         EmptyRelease)
            /\ resolved' = NoResult
            /\ lookup_attempt' = 1 /\ api_requests' = 0 /\ lookup_sleeps' = 0
            /\ lookup_codes' = <<>>
            /\ file' = AbsentFile
            /\ dl_status' = "idle" /\ dl_reason' = ""
            /\ pc' = "lookup"
            /\ UNCHANGED <<summary, exit_status, values_doc, temp>>
       ELSE LET missing == impl = "part_000" /\ ~values_doc.exists
            IN  /\ values_doc' = update_values(impl, values_doc)
                /\ summary' = IF missing THEN summary
                              ELSE [printed |-> TRUE,
                                    processed |-> processed_count,
                                    failed |-> IF impl = "part_000"
                                               THEN failed_count
                                               ELSE skipped_count]
                /\ exit_status' = IF missing THEN 1
                                  ELSE IF impl = "part_000" /\ failed_count > 0
                                  THEN 1 ELSE 0
                /\ temp' = temp \ {TEMP_DIR}
                /\ pc' = "exited"
                /\ UNCHANGED <<upstream, attempted, release_json, resolved,
                               lookup_attempt, api_requests, lookup_sleeps,
                               lookup_codes, file, dl_status, dl_reason>>
    /\ UNCHANGED <<tools, signalled, mime, dl_warning, cliVars>>
    /\ UNCHANGED <<impl, entry, lookup_err, endpoint, attempt, curl_retry,
                   requests, sleeps, curl_waits, idx, processed_count,
                   failed_count, skipped_count, outcomes, github_token,
                   charts, errors>>

\* part_001 fetch_latest_release: curl -o
api_response_json == "/tmp/api_response.json"

\* one release query of fetch_latest_release and what the function does
\* with the answer.  part_001 without GITHUB_TOKEN hands the warning that
\* get_auth_headers prints to curl as its first URL: the status it reads
\* back is never 200, 403 or 404, whether the query went out or not.
LookupRequest ==
    /\ impl \in {"part_000", "part_001"} /\ pc = "lookup"
    /\ \E code \in HttpCodes, body \in Payloads, sent \in BOOLEAN :
        LET usable    == impl = "part_000" \/ github_token
            http_code == IF usable THEN code ELSE "000"
            owner_repo == upstream.owner \o "/" \o upstream.repo
            of3       == " - attempt " \o AttemptText[lookup_attempt] \o "/3"
            retried   == IF http_code = "403"
                         THEN LogLine("WARN", "Rate limited or forbidden (HTTP 403) for "
                                              \o owner_repo \o of3)
                         ELSE LogLine("WARN", "HTTP " \o http_code \o " from "
                                              \o ApiUrl(upstream) \o " for "
                                              \o owner_repo \o of3)
            gaveUp    == IF impl = "part_000"
                         THEN LogLine("ERROR", "GitHub API returned HTTP " \o http_code
                                               \o " for " \o owner_repo)
                         ELSE IF http_code = "404"
                         THEN LogLine("ERROR", "Repository not found: " \o owner_repo
                                               \o " (HTTP 404)")
                         ELSE IF http_code = "403"
                         THEN LogLine("ERROR", "Failed to fetch " \o owner_repo
                                               \o ": HTTP 403 (rate limit exceeded)")
                         ELSE LogLine("ERROR", "Failed to fetch " \o owner_repo
                                               \o " after 3 attempts")
            invalid   == LogLine("ERROR", "Invalid JSON response from GitHub API for "
                                          \o owner_repo)
                         \o LogLine("WARN", "Raw response: " \o JsonText(body))
        IN  /\ usable => sent
            /\ ~usable => code = "000"
            /\ http_code # "200" => body = EmptyRelease
            /\ api_requests' = IF sent THEN api_requests + 1 ELSE api_requests
            /\ lookup_codes' = Append(lookup_codes, http_code)
            /\ IF http_code = "200" /\ impl = "part_001" /\ ~IsDocument(body)
               THEN \* jq empty fails: return 1
                    /\ release_json' = ShellJson(release_json.pre \o invalid, body)
                    /\ pc' = "count"
                    /\ UNCHANGED <<lookup_attempt, lookup_sleeps>>
               ELSE IF http_code = "200"
               THEN /\ release_json' = ShellJson(release_json.pre, body)
                    /\ pc' = "resolve"
                    /\ UNCHANGED <<lookup_attempt, lookup_sleeps>>
               ELSE IF impl = "part_000"
               THEN \* error: exit 1 inside the command substitution
                    /\ release_json' = ShellJson(release_json.pre \o gaveUp,
                                                 EmptyRelease)
                    /\ pc' = "resolve"
                    /\ UNCHANGED <<lookup_attempt, lookup_sleeps>>
               ELSE IF http_code = "404"
               THEN /\ release_json' = ShellJson(release_json.pre \o gaveUp,
                                                 EmptyRelease)
                    /\ pc' = "count"
                    /\ UNCHANGED <<lookup_attempt, lookup_sleeps>>
               ELSE IF lookup_attempt < MAX_RETRIES
               THEN /\ release_json' = ShellJson(release_json.pre \o retried,
                                                 EmptyRelease)
                    /\ lookup_sleeps' = lookup_sleeps + 1
                    /\ lookup_attempt' = lookup_attempt + 1
                    /\ pc' = "lookup"
               ELSE /\ release_json' = ShellJson(release_json.pre \o retried
                                                 \o gaveUp, EmptyRelease)
                    /\ pc' = "count"
                    /\ UNCHANGED <<lookup_attempt, lookup_sleeps>>
            /\ temp' = IF impl = "part_001" /\ usable /\ http_code # "000"
                       THEN temp \cup {api_response_json} ELSE temp
    /\ UNCHANGED <<tools, values_doc, signalled, mime, dl_warning, cliVars>>
    /\ UNCHANGED <<impl, entry, upstream, lookup_err, resolved, fetchVars, idx,
                   processed_count, failed_count, skipped_count, exit_status,
                   summary, attempted, outcomes, github_token, charts, errors>>

\* the branch of the if in the loop body: ((processed_count++)) or
\* ((failed_count++)), run with errexit on
Count ==
    /\ impl \in {"part_000", "part_001"} /\ entry \in {"main", "main_loop"}
    /\ pc \in {"count", "dl_done"}
    /\ LET ok == pc = "dl_done" /\ dl_status = "ok"
           status == IF ok THEN PostIncrementStatus(processed_count)
                     ELSE IF PostIncrementStatus(failed_count) # 0 THEN 1
                     ELSE IF impl = "part_001"
                     THEN PostIncrementStatus(skipped_count)
                     ELSE 0
       IN  /\ outcomes' = Append(outcomes, IF ok THEN "ok" ELSE "fail")
           /\ processed_count' = IF ok THEN processed_count + 1
                                 ELSE processed_count
           /\ failed_count' = IF ok THEN failed_count ELSE failed_count + 1
           /\ skipped_count' = IF ~ok /\ impl = "part_001"
                                  /\ PostIncrementStatus(failed_count) = 0
                               THEN skipped_count + 1 ELSE skipped_count
           /\ IF status # 0
              THEN /\ exit_status' = 1
                   /\ pc' = "exited"
                   /\ UNCHANGED idx
              ELSE /\ idx' = idx + 1
                   /\ pc' = "loop"
                   /\ UNCHANGED exit_status
    /\ temp' = IF pc' = "exited" THEN temp \ {TEMP_DIR} ELSE temp
    /\ UNCHANGED <<tools, lookup_codes, values_doc, signalled, mime,
                   dl_warning, cliVars>>
    /\ UNCHANGED <<impl, entry, resolveVars, fetchVars, summary, attempted,
                   github_token, lookup_attempt, api_requests, lookup_sleeps,
                   charts, errors>>

\* GetUpstreamCharts: client.Repositories.GetLatestRelease for the next
\* upstream
GoLookup ==
    /\ impl = "go" /\ pc = "go_loop"
    /\ idx <= Len(UpstreamList(impl))
    /\ upstream' = UpstreamList(impl)[idx]
    /\ attempted' = Append(attempted, idx)
    /\ \E err \in BOOLEAN, rel \in SyncReleases :
        /\ err => rel = CHOOSE r \in SyncReleases : TRUE
        /\ lookup_err' = err
        /\ release_json' = ShellJson("", IF err THEN EmptyRelease ELSE rel)
    /\ resolved' = NoResult
    /\ pc' = "resolve"
    /\ UNCHANGED <<scriptVars, cliVars>>
    /\ UNCHANGED <<impl, entry, fetchVars, idx, processed_count, failed_count,
                   skipped_count, exit_status, summary, outcomes, github_token,
                   lookup_attempt, api_requests, lookup_sleeps, charts, errors>>

\* GetUpstreamCharts: append the chart, or the error, and go on
GoCollect ==
    /\ impl = "go" /\ pc = "go_collect"
    /\ IF resolved.status = "ok"
       THEN charts' = Append(charts, resolved) /\ UNCHANGED errors
       ELSE errors' = errors + 1 /\ UNCHANGED charts
    /\ outcomes' = Append(outcomes, resolved.status)
    /\ idx' = idx + 1
    /\ pc' = "go_loop"
    /\ UNCHANGED <<scriptVars, cliVars>>
    /\ UNCHANGED <<impl, entry, resolveVars, fetchVars, processed_count,
                   failed_count, skipped_count, exit_status, summary,
                   attempted, github_token, lookup_attempt, api_requests,
                   lookup_sleeps>>

\* GetUpstreamCharts returns the charts and, if any lookup failed, an error
GoReturn ==
    /\ impl = "go" /\ pc = "go_loop"
    /\ idx > Len(UpstreamList(impl))
    /\ pc' = IF entry = "version" THEN "charts" ELSE "returned"
    /\ UNCHANGED <<scriptVars, cliVars>>
    /\ UNCHANGED <<impl, entry, resolveVars, fetchVars, syncVars>>

\* an INT or TERM signal is delivered to a running script.  The handler
\* of "trap ... INT TERM" writes "Script interrupted" to the log (part_000
\* with echo, part_001 with log ERROR) and returns: the shell goes on with
\* the command that follows the interrupted one.
Signal ==
    /\ impl \in {"part_000", "part_001"} /\ entry = "main"
    /\ pc # "exited" /\ ~signalled
    /\ signalled' = TRUE
    /\ UNCHANGED <<commonVars, resolveVars, fetchVars, syncVars, tools,
                   lookup_codes, values_doc, temp, mime, dl_warning, cliVars>>

NextSync ==
    \/ Signal
    \/ ValidateTools \/ MainLoop \/ LookupRequest \/ ResolvePart000 \/ ResolvePart001
    \/ DownloadStart \/ CurlRequest \/ DownloadSleep \/ Count
    \/ GoLookup \/ ResolveGo \/ GoCollect \/ GoReturn

SpecSync == InitSync /\ [][NextSync]_vars

-----------------------------------------------------------------------------
(* main from its loop on, with the lookup and the resolution of            *)
(* process_upstream and process_repo taken as they return: an artifact URL  *)
(* or a failure.  The download, the counters, the update of the values      *)
(* document and the exit are those of the scripts.                          *)

InitMain ==
    /\ impl \in {"part_000", "part_001"}
    /\ entry = "main_loop"
    /\ pc = "loop"
    /\ tools = AllTools
    /\ lookup_codes = <<>>
    /\ values_doc \in ValuesDocs
    /\ temp = {TEMP_DIR}
    /\ signalled = FALSE
    /\ mime = "application/gzip"
    /\ dl_warning = ""
    /\ CliIdle
    /\ ResolveIdle
    /\ endpoint \in Endpoints
    /\ attempt = 0 /\ curl_retry = 0
    /\ requests = 0 /\ sleeps = 0 /\ curl_waits = 0
    /\ file = AbsentFile
    /\ dl_status = "idle" /\ dl_reason = ""
    /\ idx = 1
    /\ processed_count = 0 /\ failed_count = 0 /\ skipped_count = 0
    /\ exit_status = -1
    /\ summary = NoSummary
    /\ attempted = <<>> /\ outcomes = <<>>
    /\ github_token = TRUE
    /\ lookup_attempt = 0 /\ api_requests = 0 /\ lookup_sleeps = 0
    /\ charts = <<>> /\ errors = 0

\* process_upstream, process_repo: the release was looked up and an asset
\* URL resolved from it, or one of the two failed
ProcessResolution ==
    /\ impl \in {"part_000", "part_001"} /\ entry = "main_loop"
    /\ pc = "lookup"
    /\ \E ok \in BOOLEAN :
        /\ resolved' = IF ok
                       THEN [status |-> "ok", tag |-> "v2.3.1",
                             url |-> "https://x/widget.tgz",
                             filename |-> upstream.owner \o "-" \o upstream.repo
                                          \o "-v2.3.1.tgz"]
                       ELSE Failed
        /\ pc' = IF ok THEN "dl_start" ELSE "count"
    /\ UNCHANGED <<scriptVars, cliVars>>
    /\ UNCHANGED <<impl, entry, upstream, lookup_err, release_json, fetchVars,
                   syncVars>>

NextMain ==
    \/ MainLoop \/ ProcessResolution
    \/ DownloadStart \/ CurlRequest \/ CurlRetryWait \/ DownloadSleep \/ Count

SpecMain == InitMain /\ [][NextMain]_vars

-----------------------------------------------------------------------------
(* The installer command (Go): pkg/helm, cmd/install.go, cmd/doctor.go and  *)
(* main.  A run is one invocation of the binary with its flags; the helm    *)
(* and kubectl processes it starts answer as the environment decides.       *)

RECURSIVE Join(_, _)
\* strings.Join
Join(args, sep) ==
    IF args = <<>> THEN ""
    ELSE IF Len(args) = 1 THEN Head(args)
    ELSE Head(args) \o sep \o Join(Tail(args), sep)

\* unicode.IsSpace, for the characters a command line can hold
IsSpace(c) == c \in {" ", "\t", "\n", "\r"}

RECURSIVE TrimLeft(_)
TrimLeft(s) ==
    IF s # "" /\ IsSpace(CharAt(s, 1)) THEN TrimLeft(SubSeq(s, 2, Len(s)))
    ELSE s

RECURSIVE TrimRight(_)
TrimRight(s) ==
    IF s # "" /\ IsSpace(CharAt(s, Len(s)))
    THEN TrimRight(SubSeq(s, 1, Len(s) - 1))
    ELSE s

\* strings.TrimSpace
TrimSpace(s) == TrimRight(TrimLeft(s))

RECURSIVE Split(_, _)
\* strings.Split(s, sep) for a one-character separator
Split(s, sep) ==
    IF ~Contains(s, sep) THEN <<s>>
    ELSE LET i == CHOOSE k \in 1..Len(s) :
                      /\ CharAt(s, k) = sep
                      /\ ~Contains(SubSeq(s, 1, k - 1), sep)
         IN  <<SubSeq(s, 1, i - 1)>> \o Split(SubSeq(s, i + 1, Len(s)), sep)

\* the loop over strings.Split(valuesExtra, ","), without the TrimSpace
ExtraValuesUntrimmed(extra) ==
    IF extra = "" THEN <<>>
    ELSE SelectSeq(Split(extra, ","), LAMBDA v : v # "")

\* the loop over strings.Split(valuesExtra, ","): trimmed, empty ones dropped
ExtraValues(extra) ==
    IF extra = "" THEN <<>>
    ELSE LET parts == Split(extra, ",")
             trimmed == [k \in 1..Len(parts) |-> TrimSpace(parts[k])]
         IN  SelectSeq(trimmed, LAMBDA v : v # "")

\* HelmCommand.Execute and HelmCommand.Uninstall start a helm process
\* unless the command was built for a dry run
StartsAlways(dryRun) == TRUE

Starts(dryRun) == ~dryRun

\* HelmCommand.RepoAdd
RepoAddArgs(name, url) == <<"repo", "add", name, url, "--force-update">>

\* HelmCommand.RepoUpdate
RepoUpdateArgs == <<"repo", "update">>

RECURSIVE ValueFlags(_)
ValueFlags(values) ==
    IF values = <<>> THEN <<>>
    ELSE <<"-f", Head(values)>> \o ValueFlags(Tail(values))

\* HelmCommand.Install with the values files in front of the version
InstallArgsValuesFirst(releaseName, chart, namespace, opts) ==
    <<"upgrade", "--install", releaseName, chart>>
    \o <<"-n", namespace, "--create-namespace">>
    \o ValueFlags(opts.Values)
    \o (IF opts.Version # "" THEN <<"--version", opts.Version>> ELSE <<>>)
    \o (IF opts.DryRun THEN <<"--dry-run", "--debug">> ELSE <<>>)

\* HelmCommand.Install: the argument list handed to Execute
InstallArgs(releaseName, chart, namespace, opts) ==
    <<"upgrade", "--install", releaseName, chart>>
    \o <<"-n", namespace, "--create-namespace">>
    \o (IF opts.Version # "" THEN <<"--version", opts.Version>> ELSE <<>>)
    \o ValueFlags(opts.Values)
    \o (IF opts.DryRun THEN <<"--dry-run", "--debug">> ELSE <<>>)

\* HelmCommand.Uninstall
UninstallArgs(releaseName, namespace) ==
    <<"uninstall", releaseName, "-n", namespace>>

\* the line a dry run prints in place of the process
DryRunLine(args) == "[DRY-RUN] helm " \o Join(args, " ")

\* cleanPreviousInstall: releases, without the last one
releasesWithoutLast(c) ==
    << [name |-> "eg", namespace |-> c.NamespaceGateway],
       [name |-> "aieg-crd", namespace |-> c.NamespaceAI] >>

\* cleanPreviousInstall: releases
releases(c) ==
    << [name |-> "eg", namespace |-> c.NamespaceGateway],
       [name |-> "aieg-crd", namespace |-> c.NamespaceAI],
       [name |-> "aieg", namespace |-> c.NamespaceAI] >>

\* runInstall with the CRDs step and the controller step exchanged
InstallStepsExchanged ==
    <<"cleanup", "envoy_gateway", "controller", "crds", "redis">>

\* runInstall: the steps, in the order of the function body
InstallSteps == <<"cleanup", "envoy_gateway", "crds", "controller", "redis">>

\* whether runInstall runs a step: cleanup unless cfg.SkipClean, Redis
\* only with --with-redis
StepEnabled(s, c, redis) ==
    CASE s = "cleanup" -> ~c.SkipClean
      [] s = "redis"   -> redis
      [] OTHER         -> TRUE

\* the prefix runInstall puts in front of the error of a step
StepError(s) ==
    CASE s = "cleanup"       -> "cleanup failed: "
      [] s = "envoy_gateway" -> "failed to install Envoy Gateway: "
      [] s = "crds"          -> "failed to install AI Gateway CRDs: "
      [] s = "controller"    -> "failed to install AI Gateway controller: "
      [] s = "redis"         -> "failed to install Redis: "

Uninstall(r) == [kind |-> "uninstall", args |-> UninstallArgs(r.name, r.namespace)]

RepoAdd(name, url) == [kind |-> "repo_add", args |-> RepoAddArgs(name, url)]

RepoUpdate == [kind |-> "repo_update", args |-> RepoUpdateArgs]

FetchValues == [kind |-> "fetch_values", args |-> <<>>]

Install(releaseName, chart, namespace, opts) ==
    [kind |-> "install", args |-> InstallArgs(releaseName, chart, namespace, opts)]

\* the calls of a step, in order: cleanPreviousInstall, installEnvoyGateway,
\* installAIGatewayCRDs, installAIGatewayController, installRedis.
\* tmp is the temporary values file ("" when the download failed), extra
\* the --values-extra flag.
StepCalls(s, c, tmp, extra) ==
    CASE s = "cleanup" ->
           [k \in 1..Len(releases(c)) |-> Uninstall(releases(c)[k])]
      [] s = "envoy_gateway" ->
           << RepoAdd("envoyproxy", "oci://docker.io/envoyproxy"),
              RepoUpdate,
              FetchValues,
              Install("eg", "envoyproxy/gateway-helm", c.NamespaceGateway,
                      [DryRun |-> FALSE, Namespace |-> c.NamespaceGateway,
                       Values |-> (IF tmp # "" THEN <<tmp>> ELSE <<>>)
                                  \o ExtraValues(extra),
                       Version |-> "v0.0.0-latest"]) >>
      [] s = "crds" ->
           << RepoAdd("envoyproxy-ai", "oci://docker.io/envoyproxy"),
              RepoUpdate,
              Install("aieg-crd", "envoyproxy/ai-gateway-crds-helm", c.NamespaceAI,
                      [DryRun |-> FALSE, Namespace |-> c.NamespaceAI,
                       Values |-> <<>>, Version |-> "v0.0.0-latest"]) >>
      [] s = "controller" ->
           << RepoAdd("envoyproxy-ai", "oci://docker.io/envoyproxy"),
              RepoUpdate,
              Install("aieg", "envoyproxy/ai-gateway-helm", c.NamespaceAI,
                      [DryRun |-> FALSE, Namespace |-> c.NamespaceAI,
                       Values |-> ExtraValues(extra),
                       Version |-> "v0.0.0-latest"]) >>
      [] s = "redis" ->
           << RepoAdd("bitnami", "https://charts.bitnami.com/bitnami"),
              RepoUpdate,
              Install("envoy-redis", "bitnami/redis", c.NamespaceAI,
                      [DryRun |-> FALSE, Namespace |-> c.NamespaceAI,
                       Values |-> <<>>, Version |-> ""]) >>

\* How a helm process can end on a machine e = [helm, kubectl, reachable].
\* Without a helm binary no process starts ("exec"); only uninstall can
\* miss its release, and only the commands that talk to the cluster can
\* find it unreachable.
HelmResults(kind, e) ==
    IF ~e.helm THEN {"exec"}
    ELSE CASE kind = "uninstall" ->
                IF e.reachable THEN {"ok", "not_found", "forbidden"}
                ELSE {"unreachable"}
           [] kind = "install" ->
                IF e.reachable THEN {"ok", "failed"} ELSE {"unreachable"}
           [] OTHER -> {"ok", "failed"}

\* the error text of a helm process that did not end well
HelmError(o) ==
    CASE o = "not_found"   -> "exit status 1: release: not found"
      [] o = "forbidden"   -> "exit status 1: forbidden"
      [] o = "unreachable" -> "exit status 1: Kubernetes cluster unreachable"
      [] o = "exec"        -> "exec: \"helm\": executable file not found in $PATH"
      [] OTHER             -> "exit status 1"

\* HelmCommand.Execute wraps the error of the process, Uninstall returns it
ReturnedError(kind, o) ==
    IF o = "ok" THEN "nil"
    ELSE IF kind = "uninstall" THEN HelmError(o)
    ELSE "helm command failed: " \o HelmError(o)

\* the index of the first step after position i that runInstall runs, or
\* Len(InstallSteps) + 1 when none is left
NextStep(i, c, redis) ==
    LET later == { k \in (i + 1)..Len(InstallSteps) :
                     StepEnabled(InstallSteps[k], c, redis) }
    IN  IF later = {} THEN Len(InstallSteps) + 1
        ELSE CHOOSE k \in later : \A j \in later : k <= j

\* the probes up to the cluster probe
DoctorProbesUntilCluster == <<"kubectl", "helm", "cluster">>

\* the probes of runDoctor, in the order of the function body
DoctorProbes == <<"kubectl", "helm", "cluster", "namespace_gateway",
                  "namespace_ai", "redis">>

\* How the processes of a probe can end on a machine e.  kubectl and helm
\* are looked up on the machine and asked for their version; the other
\* probes run kubectl against the cluster.
ProbeResults(p, e) ==
    CASE p = "kubectl" -> IF e.kubectl THEN {"ok", "failed"} ELSE {"missing"}
      [] p = "helm"    -> IF e.helm THEN {"ok", "failed"} ELSE {"missing"}
      [] p = "cluster" -> IF ~e.kubectl THEN {"exec"}
                          ELSE IF e.reachable THEN {"ok"} ELSE {"unreachable"}
      [] OTHER         -> IF ~e.kubectl THEN {"exec"}
                          ELSE IF e.reachable
                          THEN {"ok", "not_found", "forbidden"}
                          ELSE {"unreachable"}

\* what checkKubectl, checkHelm, checkKubernetesConnection, checkNamespace
\* and checkRedis return for the outcome of their process
CheckReturns(p, o) ==
    CASE p \in {"namespace_gateway", "namespace_ai"} -> TRUE
      [] OTHER -> o = "ok"

\* the line a check prints after its label
CheckReport(p, o) ==
    CASE p = "kubectl" -> IF o = "ok" THEN "OK" ELSE IF o = "missing"
                          THEN "NOT FOUND" ELSE "FAILED"
      [] p = "helm"    -> IF o = "ok" THEN "OK" ELSE IF o = "missing"
                          THEN "NOT FOUND" ELSE "FAILED"
      [] p = "cluster" -> IF o = "ok" THEN "CONNECTED" ELSE "NOT CONNECTED"
      [] p \in {"namespace_gateway", "namespace_ai"} ->
                          IF o = "ok" THEN "EXISTS"
                          ELSE "NOT FOUND Will be created during installation"
      [] p = "redis"   -> IF o = "ok" THEN "Pod"
                          ELSE "Not installed (optional)"

\* runDoctor: whether the result of a check is folded into allHealthy
Required(p) == p # "redis"

\* cleanPreviousInstall: what becomes of the error of an Uninstall call.
\* The loop prints a note and goes on; the function returns nil.
cleanPreviousInstallError(err) == "nil"

Configs == [NamespaceGateway : {"envoy-gateway-system"},
            NamespaceAI : {"envoy-ai-gateway-system", "ai"},
            SkipClean : BOOLEAN,
            ValuesExtra : {<<>>, <<"site.yaml">>}]

RECURSIVE Fields(_)
\* strings.Fields, as viper casts the text of a flag to a string slice
Fields(t) ==
    LET s == TrimLeft(t)
    IN  IF s = "" THEN <<>>
        ELSE LET ends == { k \in 1..Len(s) : IsSpace(CharAt(s, k)) }
                 n == IF ends = {} THEN Len(s) + 1
                      ELSE CHOOSE k \in ends : \A j \in ends : k <= j
             IN  <<SubSeq(s, 1, n - 1)>> \o Fields(SubSeq(s, n, Len(s)))

\* config.Load over a configuration file f and the --values-extra flag,
\* which install.go binds to the key values_extra: viper answers with the
\* flag when it was given, else with the file
Load(f, flag) ==
    [f EXCEPT !.ValuesExtra = IF flag # "" THEN Fields(flag) ELSE @]

Machines == [helm : BOOLEAN, kubectl : BOOLEAN, reachable : BOOLEAN]

ExtraFlags == {"", "a.yaml, ,b.yaml", "\tb.yaml ,a.yaml,"}

InitCli ==
    /\ impl = "go"
    /\ entry \in {"install", "doctor"}
    /\ pc = "run"
    /\ ResolveIdle
    /\ FetchIdle
    /\ SyncIdle
    /\ ScriptIdle
    /\ env \in Machines
    /\ isDryRun \in (IF entry = "install" THEN BOOLEAN ELSE {FALSE})
    /\ withRedis \in (IF entry = "install" THEN BOOLEAN ELSE {FALSE})
    /\ valuesExtra \in (IF entry = "install" THEN ExtraFlags ELSE {""})
    /\ cfg \in { Load(f, valuesExtra) : f \in Configs }
    /\ entry = "doctor" => ~cfg.SkipClean
    /\ step = 0 /\ call = 0
    /\ valuesFile = ""
    /\ helm_calls = <<>>
    /\ stdout = <<>>
    /\ result = "running"
    /\ probe = 0 /\ probe_log = <<>> /\ allHealthy = TRUE
    /\ VersionIdle
    /\ HelmIdle

\* runInstall up to its first step
RunInstall ==
    /\ entry = "install" /\ pc = "run"
    /\ step' = NextStep(0, cfg, withRedis)
    /\ call' = 1
    /\ pc' = "install"
    /\ UNCHANGED <<versionVars, helmVars>>
    /\ UNCHANGED <<impl, entry, resolveVars, fetchVars, syncVars, scriptVars,
                   cfg, env, isDryRun, withRedis, valuesExtra, valuesFile,
                   helm_calls, stdout, result, doctorVars>>

\* after a call that returned no error: the next call of the step, the
\* next step, or the end of runInstall; lines is what the call printed
Advance(lines) ==
    LET ops == StepCalls(InstallSteps[step], cfg, valuesFile, valuesExtra)
        n   == NextStep(step, cfg, withRedis)
    IN  IF call < Len(ops)
        THEN /\ call' = call + 1
             /\ stdout' = stdout \o lines
             /\ UNCHANGED <<step, result, pc>>
        ELSE IF n <= Len(InstallSteps)
        THEN /\ step' = n /\ call' = 1
             /\ stdout' = stdout \o lines
             /\ UNCHANGED <<result, pc>>
        ELSE /\ stdout' = stdout \o lines \o <<"Installation complete!">>
             /\ result' = "nil"
             /\ pc' = "returned"
             /\ UNCHANGED <<step, call>>

\* one call of HelmCommand made by the running step
HelmCall ==
    /\ entry = "install" /\ pc = "install"
    /\ LET s  == InstallSteps[step]
           op == StepCalls(s, cfg, valuesFile, valuesExtra)[call]
           started == Starts(isDryRun)
       IN  /\ op.kind # "fetch_values"
           /\ \E o \in (IF started THEN HelmResults(op.kind, env) ELSE {"ok"}) :
                LET err == ReturnedError(op.kind, o)
                    stepErr == IF s = "cleanup" THEN cleanPreviousInstallError(err)
                               ELSE err
                    lines == IF ~started THEN <<DryRunLine(op.args)>>
                             ELSE IF s = "cleanup" /\ err # "nil"
                             THEN <<"Note: " \o op.args[2]
                                    \o " was not previously installed">>
                             ELSE <<>>
                IN  /\ helm_calls' = Append(helm_calls,
                                       [step |-> s, args |-> op.args,
                                        started |-> started, outcome |-> o])
                    /\ IF stepErr # "nil"
                       THEN /\ result' = StepError(s) \o stepErr
                            /\ stdout' = stdout \o lines
                            /\ pc' = "returned"
                            /\ UNCHANGED <<step, call>>
                       ELSE Advance(lines)
    /\ UNCHANGED <<versionVars, helmVars>>
    /\ UNCHANGED <<impl, entry, resolveVars, fetchVars, syncVars, scriptVars,
                   cfg, env, isDryRun, withRedis, valuesExtra, valuesFile,
                   doctorVars>>

\* os.CreateTemp("", "envoy-ai-values-*.yaml"): the name of the new file
CreateTemp == "/tmp/envoy-ai-values-1.yaml"

\* installEnvoyGateway: fetchRemoteValuesFile, whose failure is a warning.
\* The request fails or is answered with another status than 200 before
\* the file is created; a failed copy of the body leaves the file behind.
FetchValuesFile ==
    /\ entry = "install" /\ pc = "install"
    /\ StepCalls(InstallSteps[step], cfg, valuesFile, valuesExtra)[call].kind
           = "fetch_values"
    /\ \E o \in {"ok", "http_error", "read_error"} :
        /\ valuesFile' = IF o = "ok" THEN CreateTemp ELSE ""
        /\ temp' = IF o = "http_error" THEN temp ELSE temp \cup {CreateTemp}
        /\ Advance(IF o = "ok" THEN <<>>
                   ELSE <<"Warning: Could not fetch official values file">>)
    /\ UNCHANGED <<versionVars, helmVars>>
    /\ UNCHANGED <<tools, lookup_codes, values_doc, signalled, mime, dl_warning>>
    /\ UNCHANGED <<impl, entry, resolveVars, fetchVars, syncVars,
                   cfg, env, isDryRun, withRedis, valuesExtra, helm_calls,
                   doctorVars>>

\* runDoctor up to its first probe
RunDoctor ==
    /\ entry = "doctor" /\ pc = "run"
    /\ allHealthy' = TRUE
    /\ probe' = 1
    /\ pc' = "doctor"
    /\ UNCHANGED <<versionVars, helmVars>>
    /\ UNCHANGED <<impl, entry, resolveVars, fetchVars, syncVars, scriptVars,
                   installVars, probe_log>>

\* one check of runDoctor
DoctorProbe ==
    /\ entry = "doctor" /\ pc = "doctor"
    /\ probe <= Len(DoctorProbes)
    /\ LET p == DoctorProbes[probe]
       IN  \E o \in ProbeResults(p, env) :
            /\ probe_log' = Append(probe_log,
                                   [probe |-> p, outcome |-> o,
                                    returned |-> CheckReturns(p, o)])
            /\ allHealthy' = IF Required(p) /\ ~CheckReturns(p, o) THEN FALSE
                             ELSE allHealthy
            /\ stdout' = Append(stdout, p \o ": " \o CheckReport(p, o))
    /\ probe' = probe + 1
    /\ UNCHANGED <<versionVars, helmVars>>
    /\ UNCHANGED <<impl, entry, pc, resolveVars, fetchVars, syncVars,
                   scriptVars, cfg, env, isDryRun, withRedis, valuesExtra,
                   step, call, valuesFile, helm_calls, result>>

\* runDoctor after the last check: the verdict and the returned error
DoctorReport ==
    /\ entry = "doctor" /\ pc = "doctor"
    /\ probe > Len(DoctorProbes)
    /\ stdout' = Append(stdout, IF allHealthy THEN "All checks passed!"
                                ELSE "Some checks failed.")
    /\ result' = IF allHealthy THEN "nil" ELSE "system health check failed"
    /\ pc' = "returned"
    /\ UNCHANGED <<versionVars, helmVars>>
    /\ UNCHANGED <<impl, entry, resolveVars, fetchVars, syncVars, scriptVars,
                   cfg, env, isDryRun, withRedis, valuesExtra, step, call,
                   valuesFile, helm_calls, doctorVars>>

\* main: os.Exit(1) when the command returned an error
MainExit ==
    /\ entry \in {"install", "doctor", "version"} /\ pc = "returned"
    /\ exit_status' = IF result = "nil" THEN 0 ELSE 1
    /\ pc' = "exited"
    /\ UNCHANGED <<impl, entry, resolveVars, fetchVars, idx, processed_count,
                   failed_count, skipped_count, summary, attempted, outcomes,
                   github_token, lookup_attempt, api_requests, lookup_sleeps,
                   charts, errors, scriptVars, cliVars>>

NextCli ==
    \/ RunInstall \/ HelmCall \/ FetchValuesFile
    \/ RunDoctor \/ DoctorProbe \/ DoctorReport \/ MainExit

SpecCli == InitCli /\ [][NextCli]_vars

-----------------------------------------------------------------------------
(* HelmCommand.Install called on its own, for any release, chart,           *)
(* namespace and options.                                                   *)

ValuesLists ==
    UNION { [1..n -> {"a.yaml", "b.yaml"}] : n \in 0..MaxValues }

InstallInputs ==
    [releaseName : {"eg", "aieg"},
     chart : {"envoyproxy/gateway-helm"},
     namespace : {"envoy-gateway-system", "ai"},
     opts : [Version : {"", "v1.2.3"}, Values : ValuesLists, DryRun : BOOLEAN]]

InitHelmInstall ==
    /\ impl = "go"
    /\ entry = "helm_install"
    /\ pc = "call"
    /\ ResolveIdle
    /\ FetchIdle
    /\ SyncIdle
    /\ ScriptIdle
    /\ cfg = [NamespaceGateway |-> "envoy-gateway-system",
              NamespaceAI |-> "envoy-ai-gateway-system", SkipClean |-> FALSE,
              ValuesExtra |-> <<>>]
    /\ env = [helm |-> TRUE, kubectl |-> TRUE, reachable |-> TRUE]
    /\ isDryRun = FALSE /\ withRedis = FALSE /\ valuesExtra = ""
    /\ step = 0 /\ call = 0
    /\ valuesFile = ""
    /\ helm_calls = <<>>
    /\ stdout = <<>>
    /\ result = "running"
    /\ probe = 0 /\ probe_log = <<>> /\ allHealthy = TRUE
    /\ VersionIdle
    /\ install_in \in InstallInputs
    /\ install_args = <<>>

\* HelmCommand.Install up to the call of Execute
HelmInstall ==
    /\ entry = "helm_install" /\ pc = "call"
    /\ install_args' = InstallArgs(install_in.releaseName, install_in.chart,
                                   install_in.namespace, install_in.opts)
    /\ pc' = "executed"
    /\ UNCHANGED <<impl, entry, resolveVars, fetchVars, syncVars, scriptVars,
                   installVars, doctorVars, versionVars, install_in>>

NextHelmInstall == HelmInstall

SpecHelmInstall == InitHelmInstall /\ [][NextHelmInstall]_vars

-----------------------------------------------------------------------------
(* The version command (Go): main, cmd.SetVersionInfo, runVersion and       *)
(* upstream.GetUpstreamCharts.                                              *)

\* the variables of package main: the defaults of the source, or the
\* values a release build sets with -ldflags -X
Builds == { [version |-> "0.1.0", gitCommit |-> "dev", buildTime |-> "unknown"],
            [version |-> "1.4.0", gitCommit |-> "3f2a9c1",
             buildTime |-> "2024-06-01T12:00:00Z"] }

\* the indexes of the upstreams whose chart GetUpstreamCharts appended, in
\* the order of the charts
RECURSIVE ChartIndexes(_, _)
ChartIndexes(outs, k) ==
    IF k > Len(outs) THEN <<>>
    ELSE (IF outs[k] = "ok" THEN <<k>> ELSE <<>>) \o ChartIndexes(outs, k + 1)

\* runVersion: the lines printed for what GetUpstreamCharts returned
ChartLines(cs, outs, errs) ==
    IF errs > 0
    THEN << [label |-> "Could not fetch upstream versions", value |-> ""] >>
    ELSE [ j \in 1..Len(cs) |->
             [label |-> upstreams[ChartIndexes(outs, 1)[j]].owner \o "/"
                        \o upstreams[ChartIndexes(outs, 1)[j]].repo,
              value |-> cs[j].tag] ]

InitVersion ==
    /\ impl = "go"
    /\ entry = "version"
    /\ pc = "main"
    /\ ResolveIdle
    /\ FetchIdle
    /\ idx = 1
    /\ processed_count = 0 /\ failed_count = 0 /\ skipped_count = 0
    /\ exit_status = -1
    /\ summary = NoSummary
    /\ attempted = <<>> /\ outcomes = <<>>
    /\ github_token = TRUE
    /\ lookup_attempt = 0 /\ api_requests = 0 /\ lookup_sleeps = 0
    /\ charts = <<>> /\ errors = 0
    /\ ScriptIdle
    /\ cfg = [NamespaceGateway |-> "envoy-gateway-system",
              NamespaceAI |-> "envoy-ai-gateway-system", SkipClean |-> FALSE,
              ValuesExtra |-> <<>>]
    /\ env \in {e \in Machines : e.kubectl /\ e.reachable}
    /\ isDryRun = FALSE /\ withRedis = FALSE /\ valuesExtra = ""
    /\ step = 0 /\ call = 0
    /\ valuesFile = ""
    /\ helm_calls = <<>>
    /\ stdout = <<>>
    /\ result = "running"
    /\ probe = 0 /\ probe_log = <<>> /\ allHealthy = TRUE
    /\ cliVersion = "dev" /\ gitCommit = "unknown" /\ buildTime = "unknown"
    /\ build \in Builds
    /\ report = <<>>
    /\ HelmIdle

\* main: cmd.SetVersionInfo(version, gitCommit, buildTime).  In the body
\* of SetVersionInfo the name buildTime is the parameter: the third
\* assignment stores the parameter in itself and the variable of the
\* package is not written.
SetVersionInfo ==
    /\ entry = "version" /\ pc = "main"
    /\ cliVersion' = build.version
    /\ gitCommit' = build.gitCommit
    /\ buildTime' = buildTime
    /\ pc' = "run"
    /\ UNCHANGED <<impl, entry, resolveVars, fetchVars, syncVars, scriptVars,
                   installVars, doctorVars, build, report, helmVars>>

\* runVersion up to the call of GetUpstreamCharts
RunVersion ==
    /\ entry = "version" /\ pc = "run"
    /\ report' = << [label |-> "CLI Version", value |-> cliVersion],
                    [label |-> "Git Commit", value |-> gitCommit],
                    [label |-> "Build Time", value |-> buildTime] >>
                  \o (IF env.helm
                      THEN << [label |-> "Helm Version", value |-> "v3.14.0"] >>
                      ELSE <<>>)
    /\ pc' = "go_loop"
    /\ UNCHANGED <<impl, entry, resolveVars, fetchVars, syncVars, scriptVars,
                   installVars, doctorVars, cliVersion, gitCommit, buildTime,
                   build, helmVars>>

\* runVersion after GetUpstreamCharts returned
VersionCharts ==
    /\ entry = "version" /\ pc = "charts"
    /\ report' = report \o ChartLines(charts, outcomes, errors)
    /\ result' = "nil"
    /\ pc' = "returned"
    /\ UNCHANGED <<impl, entry, resolveVars, fetchVars, syncVars, scriptVars,
                   cfg, env, isDryRun, withRedis, valuesExtra, step, call,
                   valuesFile, helm_calls, stdout, doctorVars, cliVersion,
                   gitCommit, buildTime, build, helmVars>>

NextVersion ==
    \/ SetVersionInfo \/ RunVersion
    \/ GoLookup \/ ResolveGo \/ GoCollect \/ GoReturn
    \/ VersionCharts \/ MainExit

SpecVersion == InitVersion /\ [][NextVersion]_vars

-----------------------------------------------------------------------------
(* Properties of the Asset Resolver (SpecResolve) *)

\* the last line of a text: the URL a resolver printed, when log lines
\* were captured in front of it
RECURSIVE LastLine(_)
LastLine(s) ==
    IF ~Contains(s, "\n") THEN s
    ELSE LET i == CHOOSE k \in 1..Len(s) : CharAt(s, k) = "\n"
                                           /\ ~Contains(SubSeq(s, 1, k - 1), "\n")
         IN  LastLine(SubSeq(s, i + 1, Len(s)))

SpecKeywords == {"helm", "chart", ".tgz", "tar.gz"}

NameHasKeyword(name) == \E k \in SpecKeywords : Contains(ToLower(name), k)

KeywordAssets(rel) ==
    { i \in 1..Len(rel.assets) : NameHasKeyword(rel.assets[i].name) }

FirstKeywordUrl(rel) ==
    rel.assets[CHOOSE i \in KeywordAssets(rel) :
                   \A j \in KeywordAssets(rel) : i <= j].url

TagPresent(rel) == ~rel.tag_name.isnull /\ rel.tag_name.s \notin {"", "null"}

FallbackUrl(owner, repo, tag) ==
    "https://github.com/" \o owner \o "/" \o repo \o "/archive/refs/tags/"
    \o tag \o ".tar.gz"

\* the resolver has run on a release the lookup returned with a tag
ResolvedRelease ==
    /\ pc = "resolved" /\ ~lookup_err
    /\ TagPresent(release_json.rel)

\* C1: when an asset of the release has a name containing one of the
\* keywords helm, chart, .tgz, tar.gz (case-insensitive), each resolver
\* returns the download URL of the first such asset in list order, and
\* not the fallback URL.
C1_FirstKeywordAssetWins ==
    (ResolvedRelease /\ KeywordAssets(release_json.rel) # {}) =>
        /\ resolved.status = "ok"
        /\ LastLine(resolved.url) = FirstKeywordUrl(release_json.rel)

\* C2: when no asset matches and the tag is T, the resolved URL is the
\* source archive of tag T under the configured owner and project.
C2_FallbackFromConfiguredRef ==
    (ResolvedRelease /\ KeywordAssets(release_json.rel) = {}
     /\ resolved.status = "ok") =>
        LastLine(resolved.url) = FallbackUrl(upstream.owner, upstream.repo,
                                             release_json.rel.tag_name.s)

\* C3: the resolution of a release that was looked up with a non-empty
\* tag never fails.
C3_ResolutionNeverFails ==
    ResolvedRelease => resolved.status = "ok"

\* C4: the file name is {project}-{tag}.tar.gz when the resolved URL ends
\* in .tar.gz and {project}-{tag}.tgz otherwise, project being the
\* configured project name without its owner.
C4_FilenameFromProjectAndTag ==
    (ResolvedRelease /\ impl \in {"part_000", "part_001"}
     /\ resolved.status = "ok") =>
        resolved.filename =
            upstream.repo \o "-" \o release_json.rel.tag_name.s
            \o (IF HasSuffix(resolved.url, ".tar.gz") THEN ".tar.gz" ELSE ".tgz")

-----------------------------------------------------------------------------
(* Properties of the Fetcher (SpecFetch) *)

FailedRequest == {"http_error", "conn_error", "partial"}

\* the endpoint fails on the first two requests and succeeds on the third
FailsTwiceThenSucceeds ==
    /\ Response(endpoint, 1) \in FailedRequest
    /\ Response(endpoint, 2) \in FailedRequest
    /\ Response(endpoint, 3) = "ok"

\* the endpoint answers every request with a non-2xx status
AlwaysNonSuccess ==
    /\ endpoint.steady = "http_error"
    /\ \A i \in 1..Len(endpoint.prefix) : endpoint.prefix[i] = "http_error"

Delays == sleeps + curl_waits

\* C5: against an endpoint that fails twice and then succeeds,
\* download_file never gives up, never makes more than 2 waits, and when
\* it returns it returns success after exactly 3 requests and 2 waits,
\* the destination holding the body of the third response.
C5_ThirdRequestSucceeds ==
    (entry = "download_file" /\ FailsTwiceThenSucceeds) =>
        /\ dl_status # "fail"
        /\ requests <= 3 /\ Delays <= 2
        /\ pc = "dl_done" \/ ENABLED NextFetch
        /\ dl_status = "ok" =>
              /\ requests = 3 /\ Delays = 2
              /\ file = [kind |-> "full", from |-> 3]

C5_Witness ==
    /\ entry = "download_file" /\ FailsTwiceThenSucceeds
    /\ pc = "dl_done" /\ dl_status = "ok" /\ requests = 3

\* C6: against an endpoint that always answers 500, download_file sends
\* exactly 3 requests, never a fourth, and ends in failure.
C6_ThreeRequestsThenFailure ==
    (entry = "download_file" /\ AlwaysNonSuccess) =>
        /\ requests <= 3
        /\ dl_status # "ok"
        /\ pc = "dl_done" => (requests = 3 /\ dl_status = "fail")

\* C7: after a failed attempt, and after a fetch that ended in failure, no
\* file exists at the destination path.
C7_NoFileAfterFailure ==
    (entry = "download_file" /\ (pc = "dl_sleep" \/ dl_status = "fail")) =>
        file.kind = "absent"

-----------------------------------------------------------------------------
(* Properties of the sync run (SpecSync) *)

Count_(seq, v) == Cardinality({ i \in 1..Len(seq) : seq[i] = v })

Ended == pc \in {"exited", "returned"}

\* C8: a run of a sync script in which an upstream failed ends with a
\* summary that reports the successes and the failures of the run, and
\* with a non-zero exit status.
C8_SummaryAndExitStatus ==
    (impl \in {"part_000", "part_001"} /\ pc = "exited"
     /\ Count_(outcomes, "fail") > 0) =>
        /\ summary.printed
        /\ summary.processed = Count_(outcomes, "ok")
        /\ summary.failed = Count_(outcomes, "fail")
        /\ exit_status # 0

\* C9: when a sync run that found its tools ends, every configured
\* upstream was attempted exactly once, in list order, and each attempt was
\* counted as a success or as a failure.
C9_EveryUpstreamAttempted ==
    (Ended /\ entry = "main" /\ tools = AllTools) =>
        /\ attempted = [i \in 1..Len(UpstreamList(impl)) |-> i]
        /\ Len(outcomes) = Len(UpstreamList(impl))

\* C10: an upstream whose processing reported success has a release tag
\* that is neither empty nor the literal "null".
C10_TagOfSuccessNeverEmpty ==
    /\ \A i \in 1..Len(charts) : charts[i].tag \notin {"", "null"}
    /\ (pc = "dl_done" /\ dl_status = "ok" /\ entry = "main") =>
           resolved.tag \notin {"", "null"}

-----------------------------------------------------------------------------
(* Properties of the install action (SpecCli) *)

HasPrefix(s, p) == Len(s) >= Len(p) /\ SubSeq(s, 1, Len(p)) = p

\* the order of the steps, as the install action documents it
StepRank(s) ==
    CASE s = "cleanup"       -> 1
      [] s = "envoy_gateway" -> 2
      [] s = "crds"          -> 3
      [] s = "controller"    -> 4
      [] s = "redis"         -> 5

\* the words by which an error names a step
StepWords(s) ==
    CASE s = "cleanup"       -> "cleanup"
      [] s = "envoy_gateway" -> "Envoy Gateway"
      [] s = "crds"          -> "AI Gateway CRDs"
      [] s = "controller"    -> "AI Gateway controller"
      [] s = "redis"         -> "Redis"

\* the step was asked for by the flags of the run
StepWanted(s) ==
    CASE s = "cleanup" -> ~cfg.SkipClean
      [] s = "redis"   -> withRedis
      [] OTHER         -> TRUE

\* the calls of step s among the first n calls
CallsOf(s, n) == { i \in 1..n : helm_calls[i].step = s }

\* step s is complete within the first n calls: it made its last call, an
\* upgrade --install (for cleanup, the uninstall of aieg), and every call
\* of it returned success to runInstall
StepDone(s, n) ==
    /\ \E i \in CallsOf(s, n) :
          IF s = "cleanup" THEN helm_calls[i].args[2] = "aieg"
          ELSE helm_calls[i].args[1] = "upgrade"
    /\ s # "cleanup" => \A i \in CallsOf(s, n) : helm_calls[i].outcome = "ok"

InstallFailed == result \notin {"running", "nil"}

\* C11: the steps run in the order cleanup, Envoy Gateway, CRDs,
\* controller, Redis; a step makes its first call only when every wanted
\* step before it is complete; after a failed call of a step no call is
\* made, the returned error names that step, and no uninstall is issued
\* once the cleanup step is over.
C11_StepsInOrderAbortOnFailure ==
    entry = "install" =>
        /\ \A i, j \in 1..Len(helm_calls) :
              i < j => StepRank(helm_calls[i].step) <= StepRank(helm_calls[j].step)
        /\ \A j \in 1..Len(helm_calls) :
              /\ StepWanted(helm_calls[j].step)
              /\ \A t \in {"cleanup", "envoy_gateway", "crds", "controller", "redis"} :
                    (StepWanted(t) /\ StepRank(t) < StepRank(helm_calls[j].step))
                        => StepDone(t, j - 1)
        /\ \A i \in 1..Len(helm_calls) :
              (helm_calls[i].step # "cleanup" /\ helm_calls[i].outcome # "ok")
                  => /\ i = Len(helm_calls)
                     /\ InstallFailed
                     /\ Contains(result, StepWords(helm_calls[i].step))
                     /\ pc \in {"returned", "exited"}
        /\ InstallFailed =>
              /\ helm_calls # <<>>
              /\ helm_calls[Len(helm_calls)].outcome # "ok"
        /\ \A i \in 1..Len(helm_calls) :
              helm_calls[i].args[1] = "uninstall" => helm_calls[i].step = "cleanup"

\* the install of Envoy Gateway was applied and the CRDs step failed
C11_Witness ==
    /\ entry = "install" /\ ~isDryRun /\ pc = "exited"
    /\ InstallFailed
    /\ Contains(result, "AI Gateway CRDs")
    /\ helm_calls[Len(helm_calls)].step = "crds"
    /\ \E i \in 1..Len(helm_calls) :
          /\ helm_calls[i].args[1] = "upgrade" /\ helm_calls[i].args[3] = "eg"
          /\ helm_calls[i].outcome = "ok"
    /\ \E i \in 1..Len(helm_calls) : helm_calls[i].outcome = "not_found"

DryRunLines == SelectSeq(stdout, LAMBDA l : HasPrefix(l, "[DRY-RUN]"))

\* the kinds of package-manager call an install run makes
CallKinds == { <<helm_calls[i].args[1], helm_calls[i].args[2]>> :
                 i \in 1..Len(helm_calls) }

\* C12: in a dry run no helm process is started; each call prints the
\* command in its place and returns success, and the run ends with the
\* completion message and exit status 0.
C12_DryRunStartsNoProcess ==
    (entry = "install" /\ isDryRun) =>
        /\ \A i \in 1..Len(helm_calls) :
              /\ ~helm_calls[i].started
              /\ helm_calls[i].outcome = "ok"
        /\ Len(DryRunLines) = Len(helm_calls)
        /\ \A i \in 1..Len(helm_calls) :
              DryRunLines[i] = "[DRY-RUN] helm " \o Join(helm_calls[i].args, " ")
        /\ ~InstallFailed
        /\ pc = "exited" =>
              /\ exit_status = 0
              /\ result = "nil"
              /\ stdout[Len(stdout)] = "Installation complete!"
              /\ {<<"repo", "add">>, <<"repo", "update">>,
                  <<"upgrade", "--install">>} \subseteq CallKinds
              /\ ~cfg.SkipClean => \E i \in 1..Len(helm_calls) :
                                      helm_calls[i].args[1] = "uninstall"

\* a dry run with the cleanup and the Redis step, on a machine without
\* helm and without a reachable cluster, ended well
C12_Witness ==
    /\ entry = "install" /\ isDryRun /\ pc = "exited"
    /\ ~cfg.SkipClean /\ withRedis
    /\ ~env.helm /\ ~env.reachable
    /\ exit_status = 0
    /\ Len(helm_calls) = 15
    /\ DryRunLines[1] = "[DRY-RUN] helm uninstall eg -n envoy-gateway-system"

\* the uninstall calls of the run, as <<release, namespace>>
Uninstalls ==
    LET u == SelectSeq(helm_calls, LAMBDA c : c.args[1] = "uninstall")
    IN  [i \in 1..Len(u) |-> <<u[i].args[2], u[i].args[4]>>]

CleanupOver == entry = "install" /\ (step > 1 \/ pc \in {"returned", "exited"})

\* C13: the cleanup pass of a real run attempts the uninstall of eg in the
\* gateway namespace, of aieg-crd and of aieg in the AI namespace, whatever
\* each attempt returns; when none of the releases exists the pass is a
\* success and the run goes on to the Envoy Gateway step.
C13_CleanupAttemptsAllThree ==
    (entry = "install" /\ ~cfg.SkipClean /\ ~isDryRun) =>
        /\ CleanupOver =>
              /\ Uninstalls = << <<"eg", cfg.NamespaceGateway>>,
                                 <<"aieg-crd", cfg.NamespaceAI>>,
                                 <<"aieg", cfg.NamespaceAI>> >>
              /\ \A i \in 1..3 : helm_calls[i].started
        /\ (Len(helm_calls) >= 3
            /\ \A i \in 1..3 : helm_calls[i].outcome = "not_found") =>
              /\ ~Contains(result, "cleanup")
              /\ Len(helm_calls) = 3 => (pc = "install" /\ step = 2)

\* none of the three releases existed and the install completed
C13_Witness ==
    /\ entry = "install" /\ ~cfg.SkipClean /\ ~isDryRun
    /\ pc = "exited" /\ exit_status = 0
    /\ Len(helm_calls) > 3
    /\ \A i \in 1..3 : helm_calls[i].outcome = "not_found"

\* C14: in the cleanup pass of a real run, an uninstall that fails for a
\* reason other than "release not found" ends the run with a cleanup
\* failure: no call follows it and the returned error names the cleanup.
C14_OnlyNotFoundSwallowed ==
    (entry = "install" /\ ~isDryRun) =>
        \A i \in 1..Len(helm_calls) :
            (helm_calls[i].step = "cleanup"
             /\ helm_calls[i].outcome \notin {"ok", "not_found"})
                => /\ i = Len(helm_calls)
                   /\ Contains(result, "cleanup failed")

-----------------------------------------------------------------------------
(* Properties of the doctor action (SpecCli) *)

\* the status of a probe that was run: a failed probe call is Unhealthy,
\* a namespace that does not exist is Absent
ProbeStatus(r) ==
    IF r.outcome = "ok" THEN "Healthy"
    ELSE IF r.probe \in {"namespace_gateway", "namespace_ai"}
            /\ r.outcome = "not_found"
    THEN "Absent"
    ELSE "Unhealthy"

RequiredProbes == {"kubectl", "helm", "cluster", "namespace_gateway",
                   "namespace_ai"}

DoctorOver == entry = "doctor" /\ pc \in {"returned", "exited"}

\* C18: doctor returns no error exactly when every required probe is
\* Healthy or Absent; the Redis probe has no part in the result.
C18_HealthyIffRequiredProbesPass ==
    DoctorOver =>
        (result = "nil" <=>
            \A i \in 1..Len(probe_log) :
                probe_log[i].probe \in RequiredProbes
                    => ProbeStatus(probe_log[i]) \in {"Healthy", "Absent"})

-----------------------------------------------------------------------------
(* Properties of Release Lookup and of validate_tools (SpecSync) *)

LookupOver == lookup_codes # <<>> /\ pc # "lookup"

RateLimitedThroughout ==
    \A i \in 1..Len(lookup_codes) : lookup_codes[i] = "403"

\* C15: a release lookup of a script that was answered 403 every time sent
\* exactly 3 queries with a wait between consecutive ones, and the run
\* then went on to attempt every upstream of its list.
C15_RateLimitedThreeQueries ==
    (impl \in {"part_000", "part_001"} /\ LookupOver /\ RateLimitedThroughout) =>
        /\ api_requests = 3
        /\ lookup_sleeps = 2
        /\ pc = "exited" => Len(attempted) = Len(UpstreamList(impl))

\* C16: after a release query of a script was answered with a payload that
\* is no JSON document, no further query is sent for the upstream, nothing
\* is resolved from it and download_file is not entered.
C16_MalformedPayloadFailsAtOnce ==
    (impl \in {"part_000", "part_001"} /\ entry = "main"
     /\ ~IsDocument(release_json.rel)) =>
        /\ lookup_codes[Len(lookup_codes)] = "200"
        /\ pc # "lookup"
        /\ resolved.status # "ok"
        /\ dl_status = "idle"

AlwaysEmpty ==
    /\ endpoint.steady = "empty"
    /\ \A i \in 1..Len(endpoint.prefix) : endpoint.prefix[i] = "empty"

\* C17: download_file against an endpoint that answers every request with
\* a zero-byte body ends after exactly 3 requests with a failure whose
\* reason is the empty file.
C17_EmptyFileRetriedAndReported ==
    (entry = "download_file" /\ AlwaysEmpty /\ pc = "dl_done") =>
        /\ dl_status = "fail"
        /\ requests = 3
        /\ dl_reason = "empty"

ToolMissing == ~({"curl", "jq", "tar", "gzip", "python3"} \subseteq tools)

\* C20: a sync script on a machine that lacks one of curl, jq, tar, gzip
\* and python3 sends no release query and no download request, starts no
\* upstream, counts none as processed and ends with a non-zero status.
C20_MissingToolFailsFast ==
    (impl \in {"part_000", "part_001"} /\ entry = "main" /\ ToolMissing) =>
        /\ pc \in {"validate_tools", "exited"}
        /\ api_requests = 0 /\ requests = 0
        /\ attempted = <<>> /\ outcomes = <<>>
        /\ processed_count = 0
        /\ pc = "exited" => exit_status # 0

\* part_001 ended on a machine without python3
C20_Witness ==
    /\ impl = "part_001" /\ entry = "main"
    /\ tools = {"curl", "jq", "tar", "gzip"}
    /\ pc = "exited" /\ exit_status = 1

-----------------------------------------------------------------------------
(* Properties of the values document (SpecMain) *)

-----------------------------------------------------------------------------
(* Properties of the version command (SpecVersion) *)

\* the value the version command printed under a label, "" if none
Reported(l) ==
    IF \E k \in 1..Len(report) : report[k].label = l
    THEN report[CHOOSE k \in 1..Len(report) : report[k].label = l].value
    ELSE ""

VersionOver == entry = "version" /\ pc \in {"returned", "exited"}

\* C22: when the version command has returned, the tag of every tracked
\* upstream whose lookup succeeded is among the lines it printed, also
\* when the lookup of another upstream failed.
C22_TagOfEverySuccessfulLookupReported ==
    VersionOver =>
        \A j \in 1..Len(charts) :
            \E k \in 1..Len(report) :
                /\ report[k].label
                      = upstreams[ChartIndexes(outcomes, 1)[j]].owner \o "/"
                        \o upstreams[ChartIndexes(outcomes, 1)[j]].repo
                /\ report[k].value = charts[j].tag

\* C28: when the version command has returned, CLI Version, Git Commit and
\* Build Time are the three values main handed to SetVersionInfo.
C28_ReportsTheValuesOfSetVersionInfo ==
    VersionOver =>
        /\ Reported("CLI Version") = build.version
        /\ Reported("Git Commit") = build.gitCommit
        /\ Reported("Build Time") = build.buildTime

-----------------------------------------------------------------------------
(* Properties of the values files of the installer (SpecCli) *)

\* the values files of a helm call: the arguments that follow a -f
ValuesOf(args) ==
    LET at == SelectSeq([k \in 1..Len(args) |-> k],
                        LAMBDA k : k > 1 /\ args[k - 1] = "-f")
    IN  [j \in 1..Len(at) |-> args[at[j]]]

\* the install calls of a release made so far
InstallsOf(releaseName) ==
    SelectSeq(helm_calls, LAMBDA c : /\ Len(c.args) >= 3
                                     /\ c.args[1] = "upgrade"
                                     /\ c.args[3] = releaseName)

\* C23: every values_extra entry of the configuration is among the -f
\* arguments of the Envoy Gateway install and of the AI Gateway controller
\* install.
C23_ConfiguredValuesExtraPassed ==
    \A name \in {"eg", "aieg"} :
        \A k \in 1..Len(InstallsOf(name)) :
            \A e \in 1..Len(cfg.ValuesExtra) :
                \E j \in 1..Len(ValuesOf(InstallsOf(name)[k].args)) :
                    ValuesOf(InstallsOf(name)[k].args)[j] = cfg.ValuesExtra[e]

-----------------------------------------------------------------------------
(* Properties of the temporary resources (SpecSync, SpecCli) *)

\* C24: when the process has exited, none of the temporary resources the
\* run created exists any more: the temporary directory and the response
\* file of a script, the temporary values file of the installer.
C24_NoTemporaryResourceAfterExit ==
    pc = "exited" => temp = {}

-----------------------------------------------------------------------------
(* Properties of the content type of a download (SpecFetch) *)

\* C25: when download_file has ended with a complete, non-empty file whose
\* type is none of gzip, tar and compressed, it returned success, the file
\* is kept, and a warning that names the type was logged.
C25_UnexpectedTypeWarnsAndSucceeds ==
    (/\ entry = "download_file" /\ pc = "dl_done"
     /\ file.kind = "full" /\ ~ExpectedType(mime)) =>
        /\ dl_status = "ok"
        /\ Contains(dl_warning, "[WARN]") /\ Contains(dl_warning, mime)

-----------------------------------------------------------------------------
(* Properties of the values captured from standard output (SpecSync) *)

\* C26: in a sync script, the payload that process_upstream/process_repo
\* holds after a release query answered with 200 is the body the host
\* sent, and a resolved URL holds no log line.
C26_CapturedValueIsTheResult ==
    (impl \in {"part_000", "part_001"} /\ entry = "main") =>
        /\ (/\ pc = "resolve" /\ lookup_codes # <<>>
            /\ lookup_codes[Len(lookup_codes)] = "200") =>
               ShellText(release_json) = JsonText(release_json.rel)
        /\ resolved.status = "ok" =>
               (~Contains(resolved.url, "\n") /\ ~Contains(resolved.url, "[TS]"))

-----------------------------------------------------------------------------
(* Properties of an interrupted sync run (SpecSync) *)

\* C27: once an INT or TERM signal was delivered to a sync script, no step
\* of the run sends a release query or a download request, starts an
\* upstream or writes the values document, and a step that ends the process
\* ends it with a non-zero status and with the temporary directory removed.
C27_SignalStopsTheRun ==
    [][signalled =>
          /\ api_requests' <= api_requests
          /\ requests' <= requests
          /\ attempted' = attempted
          /\ values_doc' = values_doc
          /\ pc' = "exited" => (exit_status' # 0 /\ TEMP_DIR \notin temp')]_vars

-----------------------------------------------------------------------------
(* Properties of the values-file list of the Envoy Gateway install (SpecCli) *)

\* the entries of each --values-extra text of ExtraFlags, in the order
\* given, without surrounding whitespace and without the empty ones
ExpectedExtra(flag) ==
    CASE flag = ""                  -> <<>>
      [] flag = "a.yaml, ,b.yaml"   -> <<"a.yaml", "b.yaml">>
      [] flag = "\tb.yaml ,a.yaml," -> <<"b.yaml", "a.yaml">>

FetchWarned ==
    \E k \in 1..Len(stdout) :
        stdout[k] = "Warning: Could not fetch official values file"

\* C29: the values files of the Envoy Gateway install are the fetched
\* official file, if the fetch succeeded, followed by the entries of
\* --values-extra in the order given, trimmed and without the empty ones;
\* after a failed fetch the run prints a warning, holds no official file
\* and still makes the install call, which is the next call of the step.
C29_ValuesFileListOfEnvoyGateway ==
    entry = "install" =>
        /\ \A k \in 1..Len(InstallsOf("eg")) :
               ValuesOf(InstallsOf("eg")[k].args)
                 = (IF valuesFile # "" THEN <<valuesFile>> ELSE <<>>)
                   \o ExpectedExtra(valuesExtra)
        /\ FetchWarned =>
               /\ valuesFile = ""
               /\ \/ Len(InstallsOf("eg")) = 1
                  \/ /\ pc = "install" /\ InstallSteps[step] = "envoy_gateway"
                     /\ StepCalls("envoy_gateway", cfg, valuesFile,
                                  valuesExtra)[call].kind = "install"

\* the official file was fetched and two extra files were given with
\* whitespace and an empty entry around them: the install was called
C29_Witness ==
    /\ entry = "install" /\ valuesExtra = "\tb.yaml ,a.yaml,"
    /\ valuesFile = CreateTemp
    /\ Len(InstallsOf("eg")) = 1
    /\ ValuesOf(InstallsOf("eg")[1].args) = <<CreateTemp, "b.yaml", "a.yaml">>

-----------------------------------------------------------------------------
(* Properties of HelmCommand.Install (SpecHelmInstall) *)

InstallBuilt == entry = "helm_install" /\ pc = "executed"

\* the number of arguments that --version and --dry-run add
VersionArgs == IF install_in.opts.Version # "" THEN 2 ELSE 0

DryRunArgs == IF install_in.opts.DryRun THEN 2 ELSE 0

Among(a, args) == \E k \in 1..Len(args) : args[k] = a

\* C30: the arguments HelmCommand.Install hands to Execute are upgrade
\* --install, the release name, the chart, -n, the namespace and
\* --create-namespace; then --version and the version if and only if a
\* version is given; then -f and the file for each values file, in the
\* order of the list; then --dry-run --debug if and only if the options ask
\* for a dry run; and no other argument.
C30_InstallArgumentList ==
    InstallBuilt =>
        LET a == install_args
            o == install_in.opts
            n == Len(o.Values)
        IN  /\ Len(a) = 7 + VersionArgs + 2 * n + DryRunArgs
            /\ SubSeq(a, 1, 7) = <<"upgrade", "--install",
                                   install_in.releaseName, install_in.chart,
                                   "-n", install_in.namespace,
                                   "--create-namespace">>
            /\ IF o.Version # ""
               THEN a[8] = "--version" /\ a[9] = o.Version
               ELSE ~Among("--version", a)
            /\ \A i \in 1..n :
                  /\ a[7 + VersionArgs + 2 * i - 1] = "-f"
                  /\ a[7 + VersionArgs + 2 * i] = o.Values[i]
            /\ IF o.DryRun
               THEN a[Len(a) - 1] = "--dry-run" /\ a[Len(a)] = "--debug"
               ELSE ~Among("--dry-run", a) /\ ~Among("--debug", a)

\* a pinned version, two different values files and a dry run
C30_Witness ==
    /\ InstallBuilt
    /\ install_in.opts.Version = "v1.2.3"
    /\ install_in.opts.Values = <<"b.yaml", "a.yaml">>
    /\ install_in.opts.DryRun
    /\ Len(install_args) = 15

=============================================================================
